---- MODULE Spec2Model ----
(***************************************************************************)
(* Kensho: the CulturalCompass view's state, its persistence effects, the  *)
(* Local Store (kenshoDb) and the legacy localStorage keys, as a state     *)
(* machine.  One action is one event-loop turn of the component: a user    *)
(* event handler or the continuation of an async handler after an await,   *)
(* together with the render it causes and the passive effects of that      *)
(* render.                                                                 *)
(***************************************************************************)
EXTENDS Integers, Sequences, FiniteSets, TLC

\* ---------------------------------------------------------------- bounds
MaxRecId == 3
MaxDay == 2
MaxLegacyItems == 1
MaxOps == 4
MaxSends == 2
MaxLocations == 2
MaxMarkers == 4
MaxTags == 2
MaxEntities == 3

\* ------------------------------------------------------ program constants
QuietPeriodMs == 500
TickMs == QuietPeriodMs \div 2
DefaultDay == 1

RecIds == 1..MaxRecId
Days == 1..MaxDay
PrefValues == {"", " ", "a"}
PrefFields == {"destination", "movie", "artist", "author"}
DescValues == {"", "d"}
QuietTicks == QuietPeriodMs \div TickMs
UserNote == <<"n">>
AutoplanNote(desc) == <<"Auto-selected based on: ", desc>>

VARIABLES
  mounted,              \* the CulturalCompass component is mounted
  isDbLoading, loadPc, resetPending,
  destination, movie, artist, author,
  recommendations, itinerary, isGenerated,
  isLoading, apiError,
  autoplanDescription, isAutoplanning, autoplanError,
  db,                   \* the Local Store (kenshoDb)
  localStorage,         \* the legacy flat key/value storage
  timers,               \* pending setTimeout handlers of the preference save
  genPc,                \* handleGenerateRecommendations: where it is suspended
  genReq,               \* the preferences its request carries
  apPc, apRecs, apDesc, apPrev, apItems, apIdx,   \* handleAutoplan: position, closure
  apClean,              \* no other operation ran since handleAutoplan began
  clearPc,              \* clearUserInputs / clearAllData / resetGeneration
  clrClean,             \* no other operation ran since that handler began
  imported,             \* kinds migrateFromLocalStorage has imported so far
  held,                 \* what the view held when it was last unmounted at rest
  ops,                  \* user events so far
  lastOp,               \* the handler or step that ran last
  prefsCleared,         \* a clear of the preferences completed, no edit since
  env,                  \* the credentials import.meta.env holds
  error,                \* the error state of the compass view
  selectedRec,          \* RadarChart: the dot selected on the mobile layout
  \* MapInterface
  chatMessages,         \* the chat, oldest message first
  currentMessage,       \* the chat input
  isTyping,
  chatCalls,            \* generateAIResponse calls in flight, by send number
  sends,                \* non-blank messages sent so far
  dbLocations,          \* the itinerary as map locations
  locations,            \* the locations prop
  mapLoaded,
  locPc,                \* where loadLocationsFromDB stands
  markersRef,           \* markersRef.current: location id -> Marker instance
  markerCount,          \* Marker instances constructed so far
  fitted,               \* the last step called fitBounds from the marker effect
  isSearching,          \* handleLocationSearch awaits the geocoder
  \* helper functions
  arg,                  \* the argument a helper function is applied to
  result                \* what it returned, <<>> before the call

vars == <<mounted, isDbLoading, loadPc, resetPending, destination, movie,
          artist, author, recommendations, itinerary, isGenerated, isLoading,
          apiError, autoplanDescription, isAutoplanning, autoplanError, db,
          localStorage, timers, genPc, genReq, apPc, apRecs, apDesc, apPrev,
          apItems, apIdx, apClean, clearPc, clrClean, imported, held,
          ops, lastOp, prefsCleared, env, error, selectedRec, isSearching,
          chatMessages, currentMessage, isTyping, chatCalls,
          sends, dbLocations, locations, mapLoaded, locPc, markersRef,
          markerCount, fitted, arg, result>>

compassVars == <<mounted, isDbLoading, loadPc, resetPending, destination,
                 movie, artist, author, recommendations, itinerary,
                 isGenerated, isLoading, apiError, autoplanDescription,
                 isAutoplanning, autoplanError, db, localStorage, timers,
                 genPc, genReq, apPc, apRecs, apDesc, apPrev, apItems, apIdx,
                 apClean, clearPc, clrClean, imported, held, ops>>

chatVars == <<chatMessages, currentMessage, isTyping, chatCalls, sends>>

markerVars == <<dbLocations, locations, mapLoaded, locPc, markersRef,
                markerCount, fitted>>

helperVars == <<arg, result>>

searchVars == <<isSearching>>

mapVars == <<chatVars, markerVars, searchVars, helperVars>>

\* the view state no handler of the itinerary, the clears or the load writes
chartVars == <<error, selectedRec>>

\* ------------------------------------------------------------- sequences
Range(s) == {s[i] : i \in 1..Len(s)}

Ids(items) == {x.id : x \in Range(items)}

Filter(s, Keep(_)) == SelectSeq(s, Keep)

RECURSIVE SeqById(_)
\* the records of a set in ascending id order
SeqById(S) ==
  IF S = {} THEN <<>>
  ELSE LET m == CHOOSE x \in S : \A y \in S : x.id <= y.id
       IN <<m>> \o SeqById(S \ {m})

Before(a, b) == a.day < b.day \/ (a.day = b.day /\ a.order < b.order)

RECURSIVE InsertSorted(_, _)
InsertSorted(x, s) ==
  IF s = <<>> THEN <<x>>
  ELSE IF Before(x, Head(s)) THEN <<x>> \o s
  ELSE <<Head(s)>> \o InsertSorted(x, Tail(s))

RECURSIVE SortItinerary(_)
\* itinerary.sort((a, b) => a.day - b.day || a.order - b.order): stable,
\* and in place on the state array
SortItinerary(s) ==
  IF s = <<>> THEN <<>>
  ELSE LET n == Len(s)
       IN InsertSorted(s[n], SortItinerary(SubSeq(s, 1, n - 1)))

\* ------------------------------------------------- the Local Store, kenshoDb
\* An absent record is the empty sequence, a present one a singleton.  Every
\* operation of a store that is not available rejects and changes nothing.
EmptyDb == [userPreferences |-> <<>>, recommendations |-> <<>>,
            itinerary |-> {}, session |-> <<>>, available |-> TRUE]

UnavailableDb == [EmptyDb EXCEPT !.available = FALSE]

DbSaveUserPreferences(d, p) ==
  IF d.available THEN [d EXCEPT !.userPreferences = <<p>>] ELSE d

DbClearUserPreferences(d) ==
  IF d.available THEN [d EXCEPT !.userPreferences = <<>>] ELSE d

DbSaveRecommendations(d, recs) ==
  IF d.available THEN [d EXCEPT !.recommendations = recs] ELSE d

DbAddToItinerary(d, item) ==
  IF d.available
  THEN [d EXCEPT !.itinerary = {x \in @ : x.id # item.id} \cup {item}]
  ELSE d

RECURSIVE DbAddAllToItinerary(_, _)
DbAddAllToItinerary(d, items) ==
  IF items = <<>> THEN d
  ELSE DbAddAllToItinerary(DbAddToItinerary(d, Head(items)), Tail(items))

DbRemoveFromItinerary(d, id) ==
  IF d.available THEN [d EXCEPT !.itinerary = {x \in @ : x.id # id}] ELSE d

DbUpdateItineraryItem(d, id, field, value) ==
  IF d.available
  THEN [d EXCEPT !.itinerary =
          {IF x.id = id THEN [x EXCEPT ![field] = value] ELSE x : x \in @}]
  ELSE d

DbClearItinerary(d) == IF d.available THEN [d EXCEPT !.itinerary = {}] ELSE d

DbClearAllData(d) == IF d.available THEN EmptyDb ELSE d

DbSaveSession(d, flag) ==
  IF d.available THEN [d EXCEPT !.session = <<[isGenerated |-> flag]>>] ELSE d

DbGetItinerary(d) == SeqById(d.itinerary)

DbGetStorageStats(d) ==
  [preferencesCount |-> Len(d.userPreferences),
   recommendationsCount |-> Len(d.recommendations),
   itineraryCount |-> Cardinality(d.itinerary),
   sessionExists |-> d.session # <<>>]

\* ------------------------------------------------------- component state
\* The part of the component's state the effects read and write, with the
\* stores they write to.
Cur == [destination |-> destination, movie |-> movie, artist |-> artist,
        author |-> author, recommendations |-> recommendations,
        itinerary |-> itinerary, isGenerated |-> isGenerated,
        isDbLoading |-> isDbLoading, db |-> db, timers |-> timers]

PrefsOf(s) == [destination |-> s.destination, movie |-> s.movie,
               artist |-> s.artist, author |-> s.author]

Trimmed(v) == IF v = " " THEN "" ELSE v      \* String.prototype.trim

HasRequiredInputsOf(p) ==
  Trimmed(p.destination) # "" /\
  (Trimmed(p.movie) # "" \/ Trimmed(p.artist) # "" \/ Trimmed(p.author) # "")

hasRequiredInputs == HasRequiredInputsOf(PrefsOf(Cur))

hasInputs == isGenerated /\ Len(recommendations) > 0

\* ------------------------------------------------------- passive effects
\* ch is the set of dependencies that changed in the render the effect
\* follows.
SaveRecommendationsEffect(s, ch) ==
  IF {"recommendations", "isDbLoading"} \cap ch # {}
     /\ ~s.isDbLoading /\ Len(s.recommendations) > 0
  THEN [s EXCEPT !.db = DbSaveRecommendations(@, s.recommendations)]
  ELSE s

PersistItineraryEffectReplaces(s, ch) ==
  IF {"itinerary", "isDbLoading"} \cap ch # {} /\ ~s.isDbLoading
  THEN [s EXCEPT !.db = DbAddAllToItinerary(DbClearItinerary(@), s.itinerary)]
  ELSE s

PersistItineraryEffect(s, ch) ==
  IF {"itinerary", "isDbLoading"} \cap ch # {} /\ ~s.isDbLoading
  THEN [s EXCEPT !.db = DbAddAllToItinerary(@, s.itinerary)]
  ELSE s

SaveSessionEffect(s, ch) ==
  IF {"isGenerated", "isDbLoading"} \cap ch # {} /\ ~s.isDbLoading
  THEN [s EXCEPT !.db = DbSaveSession(@, s.isGenerated)]
  ELSE s

\* the cleanup of the previous run of the debounce effect: clearTimeout
ClearTimeoutNone(ts) == ts

ClearTimeout(ts) == {}

\* the edits a pending save stands for: those of the timers it replaces and
\* the one that scheduled it
CoalescedEdits(ts, ch) ==
  IF "prefs" \notin ch THEN 0
  ELSE IF ts = {} THEN 1
  ELSE 1 + (CHOOSE n \in {t.edits : t \in ts} : \A u \in ts : u.edits <= n)

NewTimer(s, edits) ==
  [left |-> QuietTicks, prefs |-> PrefsOf(s), edits |-> edits]

DebouncedSaveEffect(s, ch) ==
  IF {"prefs", "isDbLoading"} \cap ch # {}
  THEN [s EXCEPT !.timers =
          IF s.isDbLoading THEN ClearTimeout(@)
          ELSE ClearTimeout(@) \cup {NewTimer(s, CoalescedEdits(@, ch))}]
  ELSE s

ResetEffectKeepsRecommendations(s) ==
  [s EXCEPT !.isGenerated = FALSE, !.itinerary = <<>>]

ResetEffectBody(s) ==
  [s EXCEPT !.isGenerated = FALSE, !.recommendations = <<>>,
            !.itinerary = <<>>]

ResetEffect(s, ch) == IF "prefs" \in ch THEN ResetEffectBody(s) ELSE s

RunEffects(s, ch) ==
  ResetEffect(
    DebouncedSaveEffect(
      SaveSessionEffect(
        PersistItineraryEffect(
          SaveRecommendationsEffect(s, ch), ch), ch), ch), ch)

\* the render's in-place sort of the itinerary array (the spinner is
\* rendered instead while the database is loading)
Render(s) ==
  IF s.isDbLoading THEN s ELSE [s EXCEPT !.itinerary = SortItinerary(@)]

\* A commit: the render, its effects, and the re-render the reset effect's
\* own state updates cause.
Commit(s, ch) ==
  LET r1 == RunEffects(Render(s), ch)
      ch2 == IF "prefs" \in ch
             THEN {"recommendations", "itinerary"} \cup
                  (IF s.isGenerated THEN {"isGenerated"} ELSE {})
             ELSE {}
  IN IF ch2 = {} THEN r1 ELSE RunEffects(Render(r1), ch2)

Apply(r) ==
  /\ destination' = r.destination
  /\ movie' = r.movie
  /\ artist' = r.artist
  /\ author' = r.author
  /\ recommendations' = r.recommendations
  /\ itinerary' = r.itinerary
  /\ isGenerated' = r.isGenerated
  /\ isDbLoading' = r.isDbLoading
  /\ db' = r.db
  /\ timers' = r.timers

\* ------------------------------------------------------- legacy storage
\* A key of localStorage is absent (<<>>) or holds one string.  The JSON
\* strings are kept parsed, with ok = FALSE for a string JSON.parse throws on.
NoLegacy == [destination |-> <<>>, movie |-> <<>>, artist |-> <<>>,
             author |-> <<>>, recommendations |-> <<>>, itinerary |-> <<>>,
             isGenerated |-> <<>>]

GetItemOr(ls, key) == IF ls[key] = <<>> THEN "" ELSE ls[key][1]

Truthy(str) == str # ""

LsSetPreferences(ls, p) ==
  [ls EXCEPT !.destination = <<p.destination>>, !.movie = <<p.movie>>,
             !.artist = <<p.artist>>, !.author = <<p.author>>]

LsRemovePreferences(ls) ==
  [ls EXCEPT !.destination = <<>>, !.movie = <<>>, !.artist = <<>>,
             !.author = <<>>]

LsRemoveAll(ls) == NoLegacy

LegacyItem(i) == [id |-> i, day |-> DefaultDay, notes |-> <<>>, order |-> i - 1]

LegacyJson(val) == <<[ok |-> TRUE, val |-> val]>>

MalformedJson == <<[ok |-> FALSE, val |-> <<>>]>>

LegacyPrefs == {NoLegacy, [NoLegacy EXCEPT !.destination = <<"a">>,
                                           !.movie = <<"a">>]}

LegacyStores ==
  {[p EXCEPT !.recommendations = r, !.itinerary = i, !.isGenerated = g] :
     p \in LegacyPrefs,
     r \in {<<>>, MalformedJson, LegacyJson(<<1, 2>>)},
     i \in {<<>>, MalformedJson} \cup
           {LegacyJson([k \in 1..n |-> LegacyItem(k)]) : n \in 1..MaxLegacyItems},
     g \in {<<>>, <<"true">>}}

\* --------------------------------------------------------------- migration
MigratePreferences(d, stats, ls) ==
  IF stats.preferencesCount = 0
     /\ \E k \in PrefFields : Truthy(GetItemOr(ls, k))
  THEN DbSaveUserPreferences(d, [destination |-> GetItemOr(ls, "destination"),
                                 movie |-> GetItemOr(ls, "movie"),
                                 artist |-> GetItemOr(ls, "artist"),
                                 author |-> GetItemOr(ls, "author")])
  ELSE d

MigrateRecommendations(d, stats, ls) ==
  IF stats.recommendationsCount = 0 /\ ls.recommendations # <<>>
     /\ ls.recommendations[1].ok /\ Len(ls.recommendations[1].val) > 0
  THEN DbSaveRecommendations(d, ls.recommendations[1].val)
  ELSE d

MigrateItinerary(d, stats, ls) ==
  IF stats.itineraryCount = 0 /\ ls.itinerary # <<>> /\ ls.itinerary[1].ok
  THEN DbAddAllToItinerary(d, ls.itinerary[1].val)
  ELSE d

MigrateSessionAlways(d, stats, ls) ==
  IF ls.isGenerated # <<>> /\ Truthy(ls.isGenerated[1])
  THEN DbSaveSession(d, ls.isGenerated[1] = "true")
  ELSE d

MigrateSession(d, stats, ls) ==
  IF ~stats.sessionExists /\ ls.isGenerated # <<>>
     /\ Truthy(ls.isGenerated[1])
  THEN DbSaveSession(d, ls.isGenerated[1] = "true")
  ELSE d

\* without the inner try/catch a malformed value would end the migration in
\* the outer catch, before the kinds that follow
migrateFromLocalStorageAborts(d, ls) ==
  LET stats == DbGetStorageStats(d)
      d1 == MigratePreferences(d, stats, ls)
  IN IF stats.recommendationsCount = 0 /\ ls.recommendations = MalformedJson
     THEN d1
     ELSE LET d2 == MigrateRecommendations(d1, stats, ls)
          IN IF stats.itineraryCount = 0 /\ ls.itinerary = MalformedJson
             THEN d2
             ELSE MigrateSession(MigrateItinerary(d2, stats, ls), stats, ls)

\* the four kinds are tested against one snapshot of the statistics
migrateFromLocalStorage(d, ls) ==
  LET stats == DbGetStorageStats(d)
      d1 == MigratePreferences(d, stats, ls)
      d2 == MigrateRecommendations(d1, stats, ls)
      d3 == MigrateItinerary(d2, stats, ls)
  IN MigrateSession(d3, stats, ls)

ImportedKinds(d, ls) ==
  LET m == migrateFromLocalStorage(d, ls)
  IN {k \in {"userPreferences", "recommendations", "itinerary", "session"} :
        m[k] # d[k]}

\* ------------------------------------------------------------------- Init
NoTimers == {}

NoPrefs == [destination |-> "", movie |-> "", artist |-> "", author |-> ""]

\* the greeting the chat starts with
Credentials ==
  {"VITE_QLOO_API_KEY", "VITE_GEMINI_API_KEY", "VITE_MAPBOX_API_KEY"}

\* .env holds the three keys
InitEnv == env = Credentials

Greeting ==
  [type |-> "assistant",
   content |-> "Hello! I'm your AI tour guide. I can help you discover amazing places, plan your itinerary, and answer questions about your destinations. Add some locations from the Cultural Compass to see them on the map!",
   of |-> 0]

InitMap ==
  /\ chatMessages = <<Greeting>>
  /\ currentMessage = ""
  /\ isTyping = FALSE
  /\ chatCalls = {}
  /\ sends = 0
  /\ dbLocations = <<>>
  /\ locations = <<>>
  /\ mapLoaded = FALSE
  /\ locPc = "getItinerary"
  /\ markersRef = <<>>
  /\ markerCount = 0
  /\ fitted = FALSE
  /\ isSearching = FALSE

\* no helper function is being called
InitHelpers == arg = <<>> /\ result = <<>>

InitView ==
  /\ mounted = FALSE
  /\ isDbLoading = TRUE
  /\ loadPc = "unmounted"
  /\ resetPending = FALSE
  /\ destination = "" /\ movie = "" /\ artist = "" /\ author = ""
  /\ recommendations = <<>>
  /\ itinerary = <<>>
  /\ isGenerated = FALSE
  /\ isLoading = FALSE
  /\ apiError = ""
  /\ autoplanDescription = ""
  /\ isAutoplanning = FALSE
  /\ autoplanError = <<>>
  /\ timers = NoTimers
  /\ genPc = "idle"
  /\ genReq = NoPrefs
  /\ apPc = "idle"
  /\ apRecs = <<>> /\ apDesc = "" /\ apPrev = <<>> /\ apItems = <<>>
  /\ apIdx = 0
  /\ apClean = TRUE
  /\ clearPc = "idle"
  /\ clrClean = TRUE
  /\ imported = {}
  /\ held = <<>>
  /\ ops = 0
  /\ lastOp = ""
  /\ prefsCleared = FALSE
  /\ error = <<>>
  /\ selectedRec = <<>>

Init ==
  /\ InitEnv
  /\ InitView
  /\ InitMap
  /\ InitHelpers
  /\ db = EmptyDb
  /\ localStorage \in LegacyStores

\* an operation other than the suspended handlers themselves has run
OtherOp ==
  /\ apClean' = (apPc = "idle")
  /\ clrClean' = (clearPc = "idle")
  /\ UNCHANGED ops

\* a step of the compass view; the map view is not mounted with it
DidStep(name) ==
  /\ lastOp' = name
  /\ prefsCleared' =
       (IF name \in {"clearUserInputs", "clearAllData"} THEN db.available
        ELSE IF name \in {"SetPreference", "clearSavedInputs"} THEN FALSE
        ELSE prefsCleared)
  /\ UNCHANGED <<env, mapVars>>

\* such a step that leaves the error banner and the radar chart alone
Did(name) == DidStep(name) /\ UNCHANGED chartVars

\* what a step of the map view leaves alone
UnchangedCompass == UNCHANGED <<compassVars, prefsCleared, env, chartVars>>

\* a step of the map view's chat
DidChat(name) ==
  lastOp' = name /\ UnchangedCompass
    /\ UNCHANGED <<markerVars, searchVars, helperVars>>

\* a step of the map view's markers
DidMarkers(name) ==
  lastOp' = name /\ UnchangedCompass
    /\ UNCHANGED <<chatVars, searchVars, helperVars>>

\* a call of a helper function
DidCall(name) ==
  lastOp' = name /\ UnchangedCompass
    /\ UNCHANGED <<chatVars, markerVars, searchVars>>

\* a user event: one more of the MaxOps events a behaviour holds
CountOp ==
  /\ ops < MaxOps
  /\ ops' = ops + 1

UserOp ==
  /\ apClean' = (apPc = "idle")
  /\ clrClean' = (clearPc = "idle")
  /\ CountOp

\* ------------------------------------------------------ mount and load
loadVars == <<mounted, loadPc, resetPending, imported, held>>

genVars == <<genPc, genReq, isLoading, apiError>>

apVars == <<apPc, apRecs, apDesc, apPrev, apItems, apIdx, isAutoplanning,
            autoplanError>>

UnchangedHandlers ==
  UNCHANGED <<genVars, apVars, autoplanDescription, apClean, clearPc,
              clrClean>>

\* useState initialisers and the first run of every effect
Mount ==
  /\ ~mounted
  /\ mounted' = TRUE
  /\ loadPc' = "prefs"
  /\ resetPending' = FALSE
  /\ Apply(Commit([Cur EXCEPT !.destination = GetItemOr(localStorage, "destination"),
                              !.movie = GetItemOr(localStorage, "movie"),
                              !.artist = GetItemOr(localStorage, "artist"),
                              !.author = GetItemOr(localStorage, "author"),
                              !.isDbLoading = TRUE],
                  {"prefs", "recommendations", "itinerary", "isGenerated",
                   "isDbLoading"}))
  /\ UNCHANGED <<localStorage, imported, held>>
  /\ UnchangedHandlers
  /\ UNCHANGED ops
  /\ Did("Mount")

\* loadDataFromDB up to each of its awaits.  The reset effect of a render
\* in which the loaded preferences differ from the initial ones is passive:
\* it runs at some later point of the load (resetPending).
LoadPreferences ==
  /\ mounted /\ loadPc = "prefs"
  /\ db.available
  /\ LET s == IF db.userPreferences = <<>> THEN Cur
              ELSE [Cur EXCEPT !.destination = db.userPreferences[1].destination,
                               !.movie = db.userPreferences[1].movie,
                               !.artist = db.userPreferences[1].artist,
                               !.author = db.userPreferences[1].author]
     IN /\ Apply(s)
        /\ resetPending' = (PrefsOf(s) # PrefsOf(Cur))
  /\ loadPc' = "recommendations"
  /\ UNCHANGED <<mounted, localStorage, imported, held>>
  /\ UnchangedHandlers
  /\ UNCHANGED ops
  /\ Did("LoadPreferences")

\* loadFromLocalStorage: a legacy list that parses replaces the state
loadFromLocalStorage(s, ls) ==
  [s EXCEPT !.recommendations = IF ls.recommendations # <<>> /\
                                   ls.recommendations[1].ok
                                THEN ls.recommendations[1].val ELSE @,
            !.itinerary = IF ls.itinerary # <<>> /\ ls.itinerary[1].ok
                          THEN ls.itinerary[1].val ELSE @,
            !.isGenerated = IF ls.isGenerated = <<"true">> THEN TRUE ELSE @]

\* kenshoDb.getUserPreferences rejects: the catch falls back to
\* loadFromLocalStorage, then finally { setIsDbLoading(false) }
LoadFallback ==
  /\ mounted /\ loadPc = "prefs"
  /\ ~db.available
  /\ LET s == loadFromLocalStorage(Cur, localStorage)
     IN Apply(Commit([s EXCEPT !.isDbLoading = FALSE],
                     {"recommendations", "itinerary", "isGenerated",
                      "isDbLoading"}))
  /\ loadPc' = "done"
  /\ UNCHANGED <<mounted, resetPending, localStorage, imported, held>>
  /\ UnchangedHandlers
  /\ UNCHANGED ops
  /\ Did("LoadFallback")

LoadRecommendations ==
  /\ mounted /\ loadPc = "recommendations"
  /\ Apply([Cur EXCEPT !.recommendations = db.recommendations])
  /\ loadPc' = "itinerary"
  /\ UNCHANGED <<mounted, resetPending, localStorage, imported, held>>
  /\ UnchangedHandlers
  /\ UNCHANGED ops
  /\ Did("LoadRecommendations")

LoadItinerary ==
  /\ mounted /\ loadPc = "itinerary"
  /\ Apply([Cur EXCEPT !.itinerary = DbGetItinerary(db)])
  /\ loadPc' = "session"
  /\ UNCHANGED <<mounted, resetPending, localStorage, imported, held>>
  /\ UnchangedHandlers
  /\ UNCHANGED ops
  /\ Did("LoadItinerary")

LoadSession ==
  /\ mounted /\ loadPc = "session"
  /\ Apply(IF db.session = <<>> THEN Cur
           ELSE [Cur EXCEPT !.isGenerated = db.session[1].isGenerated])
  /\ loadPc' = "migrate"
  /\ UNCHANGED <<mounted, resetPending, localStorage, imported, held>>
  /\ UnchangedHandlers
  /\ UNCHANGED ops
  /\ Did("LoadSession")

Migrate ==
  /\ mounted /\ loadPc = "migrate"
  /\ Apply([Cur EXCEPT !.db = migrateFromLocalStorage(db, localStorage)])
  /\ imported' = imported \cup ImportedKinds(db, localStorage)
  /\ UNCHANGED held
  /\ loadPc' = "finish"
  /\ UNCHANGED <<mounted, resetPending, localStorage>>
  /\ UnchangedHandlers
  /\ UNCHANGED ops
  /\ Did("Migrate")

RunPendingResetEffect ==
  /\ mounted /\ resetPending
  /\ loadPc \in {"recommendations", "itinerary", "session", "migrate", "finish"}
  /\ Apply(ResetEffect(Cur, {"prefs"}))
  /\ resetPending' = FALSE
  /\ UNCHANGED <<mounted, loadPc, localStorage, imported, held>>
  /\ UnchangedHandlers
  /\ UNCHANGED ops
  /\ Did("RunPendingResetEffect")

\* finally { setIsDbLoading(false) }
LoadFinish ==
  /\ mounted /\ loadPc = "finish"
  /\ Apply(Commit([Cur EXCEPT !.isDbLoading = FALSE],
                  {"isDbLoading"} \cup
                  (IF resetPending THEN {"prefs"} ELSE {})))
  /\ resetPending' = FALSE
  /\ loadPc' = "done"
  /\ UNCHANGED <<mounted, localStorage, imported, held>>
  /\ UnchangedHandlers
  /\ UNCHANGED ops
  /\ Did("LoadFinish")

Quiescent ==
  /\ loadPc = "done" /\ genPc = "idle" /\ apPc = "idle" /\ clearPc = "idle"

\* the recommendations, the itinerary entries and the flag the view holds
Held == [recommendations |-> recommendations, itinerary |-> Range(itinerary),
         isGenerated |-> isGenerated]

\* navigation away from the compass page; the effects' cleanups run
Unmount ==
  /\ mounted /\ Quiescent
  /\ mounted' = FALSE
  /\ held' = IF timers = {} THEN <<Held>> ELSE <<>>
  /\ loadPc' = "unmounted"
  /\ Apply([Cur EXCEPT !.destination = "", !.movie = "", !.artist = "",
                       !.author = "", !.recommendations = <<>>,
                       !.itinerary = <<>>, !.isGenerated = FALSE,
                       !.isDbLoading = TRUE, !.timers = ClearTimeout(@)])
  /\ isLoading' = FALSE /\ apiError' = ""
  /\ autoplanDescription' = "" /\ isAutoplanning' = FALSE
  /\ autoplanError' = <<>>
  /\ UNCHANGED <<resetPending, localStorage, imported, genPc, genReq, apPc,
                 apRecs, apDesc, apPrev, apItems, apIdx, apClean, clearPc,
                 clrClean>>
  /\ CountOp
  /\ Did("Unmount")

\* ------------------------------------------------------------ user events
\* The page shows its controls only once the database has loaded.
Ready == mounted /\ ~isDbLoading

\* onChange of one of the four preference inputs
SetPreference(field, v) ==
  /\ Ready
  /\ Cur[field] # v
  /\ Apply(Commit([Cur EXCEPT ![field] = v], {"prefs"}))
  /\ UserOp
  /\ UNCHANGED <<loadVars, genVars, apVars, autoplanDescription, clearPc,
                 localStorage>>
  /\ Did("SetPreference")

\* the setTimeout callback of the debounce effect
TimerFire(t) ==
  /\ t \in timers /\ t.left = 0
  /\ db' = DbSaveUserPreferences(db, t.prefs)
  /\ localStorage' = LsSetPreferences(localStorage, t.prefs)
  /\ timers' = timers \ {t}
  /\ UNCHANGED <<loadVars, genVars, apVars, autoplanDescription, clearPc,
                 apClean, clrClean, destination, movie, artist, author,
                 recommendations, itinerary, isGenerated, isDbLoading>>
  /\ UNCHANGED ops
  /\ Did(IF t.edits >= 2 THEN "TimerFire:coalesced" ELSE "TimerFire")

\* TickMs of time pass; a timer that is due runs first
Tick ==
  /\ timers # {}
  /\ \A t \in timers : t.left > 0
  /\ timers' = {[t EXCEPT !.left = @ - 1] : t \in timers}
  /\ UNCHANGED <<loadVars, genVars, apVars, autoplanDescription, clearPc,
                 apClean, clrClean, destination, movie, artist, author,
                 recommendations, itinerary, isGenerated, isDbLoading, db,
                 localStorage>>
  /\ UNCHANGED ops
  /\ Did("Tick")

NewItem(rec, n) == [id |-> rec, day |-> DefaultDay, notes |-> <<>>, order |-> n]

addToItineraryNoFind(s, rec) ==
  LET newItem == NewItem(rec, Len(s.itinerary))
  IN [s EXCEPT !.itinerary = Append(@, newItem),
               !.db = DbAddToItinerary(@, newItem)]

addToItinerary(s, rec) ==
  IF rec \notin Ids(s.itinerary)
  THEN LET newItem == NewItem(rec, Len(s.itinerary))
       IN [s EXCEPT !.itinerary = Append(@, newItem),
                    !.db = DbAddToItinerary(@, newItem)]
  ELSE s

removeFromItinerary(s, id) ==
  [s EXCEPT !.itinerary = SelectSeq(@, LAMBDA item : item.id # id),
            !.db = DbRemoveFromItinerary(@, id)]

updateItineraryDay(s, id, day) ==
  [s EXCEPT !.itinerary = [i \in 1..Len(@) |->
                             IF @[i].id = id THEN [@[i] EXCEPT !.day = day]
                             ELSE @[i]],
            !.db = DbUpdateItineraryItem(@, id, "day", day)]

updateItineraryNotes(s, id, notes) ==
  [s EXCEPT !.itinerary = [i \in 1..Len(@) |->
                             IF @[i].id = id THEN [@[i] EXCEPT !.notes = notes]
                             ELSE @[i]],
            !.db = DbUpdateItineraryItem(@, id, "notes", notes)]

ItemOf(id) == CHOOSE x \in Range(itinerary) : x.id = id

\* onDotClick / onAdd: the page's addToItinerary
onDotClick(rec) ==
  /\ Ready /\ hasInputs
  /\ rec \in Range(recommendations)
  /\ LET s == addToItinerary(Cur, rec)
     IN Apply(IF s = Cur THEN Cur ELSE Commit(s, {"itinerary"}))
  /\ UserOp
  /\ UNCHANGED <<loadVars, genVars, apVars, autoplanDescription, clearPc,
                 localStorage>>
  /\ DidStep(IF rec \in Ids(itinerary) THEN "AddToItinerary:present"
             ELSE "AddToItinerary")

\* a click on a recommendation card, or on a dot of the desktop layout
AddToItinerary(rec) == onDotClick(rec) /\ UNCHANGED chartVars

\* a step of the radar chart that calls nothing of the page
ChartOnly(name) ==
  /\ lastOp' = name
  /\ UNCHANGED <<compassVars, prefsCleared, env, error, mapVars>>

\* RadarChart.handleDotClick on the mobile layout (window.innerWidth < 1024)
HandleDotClick(rec) ==
  /\ Ready /\ hasInputs
  /\ rec \in Range(recommendations)
  /\ IF selectedRec = <<rec>>
     THEN onDotClick(rec) /\ selectedRec' = <<>> /\ UNCHANGED error
     ELSE selectedRec' = <<rec>> /\ ChartOnly("HandleDotClick:select")

\* the 'Add to Itinerary' button of the selected card
CardAdd ==
  /\ selectedRec # <<>>
  /\ onDotClick(selectedRec[1]) /\ selectedRec' = <<>> /\ UNCHANGED error

\* the X of the selected card
CardClose ==
  /\ Ready /\ selectedRec # <<>>
  /\ selectedRec' = <<>>
  /\ ChartOnly("CardClose")

\* a tap on the chart outside every dot and the card: nothing listens
TapElsewhere ==
  /\ Ready /\ hasInputs
  /\ lastOp # "TapElsewhere"
  /\ UNCHANGED selectedRec
  /\ ChartOnly("TapElsewhere")

RemoveFromItinerary(id) ==
  /\ Ready
  /\ id \in Ids(itinerary)
  /\ Apply(Commit(removeFromItinerary(Cur, id), {"itinerary"}))
  /\ UserOp
  /\ UNCHANGED <<loadVars, genVars, apVars, autoplanDescription, clearPc,
                 localStorage>>
  /\ Did("RemoveFromItinerary")

UpdateItineraryDay(id, day) ==
  /\ Ready
  /\ id \in Ids(itinerary)
  /\ ItemOf(id).day # day
  /\ Apply(Commit(updateItineraryDay(Cur, id, day), {"itinerary"}))
  /\ UserOp
  /\ UNCHANGED <<loadVars, genVars, apVars, autoplanDescription, clearPc,
                 localStorage>>
  /\ Did("UpdateItineraryDay")

UpdateItineraryNotes(id, notes) ==
  /\ Ready
  /\ id \in Ids(itinerary)
  /\ ItemOf(id).notes # notes
  /\ Apply(Commit(updateItineraryNotes(Cur, id, notes), {"itinerary"}))
  /\ UserOp
  /\ UNCHANGED <<loadVars, genVars, apVars, autoplanDescription, clearPc,
                 localStorage>>
  /\ Did("UpdateItineraryNotes")

SetAutoplanDescription(v) ==
  /\ Ready /\ hasInputs
  /\ autoplanDescription # v
  /\ autoplanDescription' = v
  /\ UserOp
  /\ UNCHANGED <<loadVars, genVars, apVars, clearPc, localStorage,
                 destination, movie, artist, author, recommendations,
                 itinerary, isGenerated, isDbLoading, db, timers>>
  /\ Did("SetAutoplanDescription")

\* ------------------------------------------------------ reset and clear
Cleared(s) == [s EXCEPT !.destination = "", !.movie = "", !.artist = "",
                        !.author = ""]

\* the dependencies a handler's state updates changed
Changed(s) ==
  (IF PrefsOf(s) # PrefsOf(Cur) THEN {"prefs"} ELSE {}) \cup
  (IF s.isGenerated # isGenerated THEN {"isGenerated"} ELSE {})

AnyPreference ==
  destination # "" \/ movie # "" \/ artist # "" \/ author # ""

\* mobile 'Reset & Try Again'
ResetMobile ==
  /\ Ready /\ isGenerated
  /\ Apply(Commit([Cur EXCEPT !.isGenerated = FALSE, !.recommendations = <<>>,
                              !.itinerary = <<>>],
                  {"isGenerated", "recommendations", "itinerary"}))
  /\ UserOp
  /\ UNCHANGED <<loadVars, genVars, apVars, autoplanDescription, clearPc,
                 localStorage>>
  /\ Did("ResetMobile")

\* mobile 'Clear Input Data Only'
clearSavedInputs ==
  /\ Ready /\ (isGenerated \/ AnyPreference)
  /\ LET s == [Cleared(Cur) EXCEPT !.isGenerated = FALSE]
     IN Apply(Commit(s, Changed(s)))
  /\ UserOp
  /\ UNCHANGED <<loadVars, genVars, apVars, autoplanDescription, clearPc,
                 localStorage>>
  /\ Did("clearSavedInputs")

\* desktop 'Reset & Try Again', 'Clear Input Data Only', and 'Clear All Data
\* & Itinerary' of both layouts: each awaits one kenshoDb call, then updates
\* localStorage and the state.
ClearStart(h) ==
  /\ Ready /\ clearPc = "idle"
  /\ \/ h = "resetGeneration" /\ isGenerated
        /\ db' = DbSaveSession(db, FALSE)
     \/ h = "clearUserInputs" /\ (isGenerated \/ AnyPreference)
        /\ db' = DbClearUserPreferences(db)
     \/ h = "clearAllData" /\ (isGenerated \/ AnyPreference)
        /\ db' = DbClearAllData(db)
  /\ clearPc' = h
  /\ clrClean' = TRUE
  /\ apClean' = (apPc = "idle")
  /\ UNCHANGED <<loadVars, genVars, apVars, autoplanDescription,
                 localStorage, destination, movie, artist, author,
                 recommendations, itinerary, isGenerated, isDbLoading, timers>>
  /\ CountOp
  /\ Did("ClearStart")

resetGenerationFinish ==
  /\ clearPc = "resetGeneration"
  /\ LET s == [Cur EXCEPT !.isGenerated = FALSE]
     IN Apply(Commit(s, Changed(s)))
  /\ UNCHANGED localStorage

clearUserInputsFinish ==
  /\ clearPc = "clearUserInputs"
  /\ localStorage' = LsRemovePreferences(localStorage)
  /\ LET s == [Cleared(Cur) EXCEPT !.isGenerated = FALSE]
     IN Apply(Commit(s, Changed(s)))

clearAllDataFinish ==
  /\ clearPc = "clearAllData"
  /\ localStorage' = LsRemoveAll(localStorage)
  /\ LET s == [Cleared(Cur) EXCEPT !.isGenerated = FALSE,
                                   !.recommendations = <<>>,
                                   !.itinerary = <<>>]
     IN Apply(Commit(s, Changed(s) \cup {"recommendations", "itinerary"}))

\* the awaited kenshoDb call rejected: the catch logs the error and the
\* statements after the await are skipped
ClearRejected ==
  /\ clearPc # "idle"
  /\ UNCHANGED <<localStorage, destination, movie, artist, author,
                 recommendations, itinerary, isGenerated, isDbLoading, db,
                 timers>>

ClearFinish ==
  /\ mounted
  /\ IF db.available
     THEN \/ resetGenerationFinish
          \/ clearUserInputsFinish
          \/ clearAllDataFinish
     ELSE ClearRejected
  /\ clearPc' = "idle"
  /\ clrClean' = TRUE
  /\ apClean' = (apPc = "idle")
  /\ UNCHANGED <<loadVars, genVars, apVars, autoplanDescription>>
  /\ UNCHANGED ops
  /\ Did(clearPc)

\* ------------------------------------------- handleGenerateRecommendations
\* the lists of recommendation ids a generation can produce, most popular
\* first
ApiResults ==
  {<<>>, [i \in 1..MaxRecId |-> i]} \cup {<<i, i + 1>> : i \in 1..(MaxRecId - 1)}

\* String.prototype.includes
includes(str, word) ==
  \E k \in 1..Len(str) :
    k + Len(word) - 1 <= Len(str) /\ SubSeq(str, k, k + Len(word) - 1) = word

\* a text is the tuple of its characters
InvalidLocation ==
  <<"I", "n", "v", "a", "l", "i", "d", " ", "l", "o", "c", "a", "t", "i", "o", "n">>

StorageUnavailable ==
  <<"S", "t", "o", "r", "a", "g", "e", "U", "n", "a", "v", "a", "i", "l", "a", "b", "l", "e">>

\* the replies that are not ok: a status and the message of the body, <<>>
\* when the body holds none
ApiErrors ==
  {[status |-> 400, body |-> <<>>], [status |-> 400, body |-> InvalidLocation],
   [status |-> 500, body |-> <<>>]}

StatusText(status) ==
  CASE status = 400 -> <<"4", "0", "0">> [] status = 500 -> <<"5", "0", "0">>

\* new Error(data?.results?.message || `API Error: ${response.status}`)
ThrownMessage(e) ==
  IF e.body # <<>> THEN e.body
  ELSE <<"A", "P", "I", " ", "E", "r", "r", "o", "r", ":", " ">> \o StatusText(e.status)

\* the catch: err.message.includes('400')
ErrorMessage(message) ==
  IF includes(message, <<"4", "0", "0">>) THEN "Destination is invalid"
  ELSE "An error occurred while generating recommendations"

QlooKeyError == <<"Please provide a Qloo API Key.">>

GenerateStart ==
  /\ Ready /\ genPc = "idle"
  /\ hasRequiredInputs /\ ~isGenerated /\ ~isLoading
  /\ IF "VITE_QLOO_API_KEY" \notin env
     THEN /\ error' = QlooKeyError
          /\ Apply(Cur)
          /\ UNCHANGED <<isLoading, apiError, genReq, genPc>>
     ELSE /\ isLoading' = TRUE
          /\ error' = <<>>
          /\ apiError' = ""
          /\ Apply(Commit([Cur EXCEPT !.recommendations = <<>>],
                          {"recommendations"}))
          /\ genReq' = PrefsOf(Cur)
          /\ genPc' = "fetch"
  /\ UserOp
  /\ UNCHANGED <<loadVars, apVars, autoplanDescription, clearPc, localStorage>>
  /\ UNCHANGED selectedRec
  /\ DidStep(IF "VITE_QLOO_API_KEY" \in env THEN "GenerateStart"
             ELSE "GenerateStart:nokey")

\* setRecommendations, setIsGenerated(true), and the call of
\* kenshoDb.saveRecommendations the handler then awaits.  req holds the
\* preferences the request was built from; the handler never compares them
\* with the current ones.
ApplyResponse(s, mapped, req) ==
  [s EXCEPT !.recommendations = mapped, !.isGenerated = TRUE,
            !.db = DbSaveRecommendations(@, mapped)]

GenerateSuccess(mapped) ==
  /\ mounted /\ genPc = "fetch"
  /\ LET s == ApplyResponse(Cur, mapped, genReq)
     IN Apply(Commit(s, Changed(s) \cup {"recommendations"}))
  /\ genPc' = "saveRecommendations"
  /\ OtherOp
  /\ UNCHANGED <<loadVars, genReq, isLoading, apiError, apVars,
                 autoplanDescription, clearPc, localStorage>>
  /\ Did("GenerateSuccess")

GenerateFailure(e) ==
  /\ mounted /\ genPc = "fetch"
  /\ apiError' = ErrorMessage(ThrownMessage(e))
  /\ isLoading' = FALSE
  /\ genPc' = "idle"
  /\ genReq' = NoPrefs
  /\ OtherOp
  /\ UNCHANGED <<loadVars, apVars, autoplanDescription, clearPc,
                 localStorage, destination, movie, artist, author,
                 recommendations, itinerary, isGenerated, isDbLoading, db,
                 timers>>
  /\ Did("GenerateFailure")

GenerateSaveSession ==
  /\ mounted /\ genPc = "saveRecommendations"
  /\ db.available
  /\ db' = DbSaveSession(db, TRUE)
  /\ genPc' = "saveSession"
  /\ OtherOp
  /\ UNCHANGED <<loadVars, genReq, isLoading, apiError, apVars,
                 autoplanDescription, clearPc, localStorage, destination,
                 movie, artist, author, recommendations, itinerary,
                 isGenerated, isDbLoading, timers>>
  /\ Did("GenerateSaveSession")

\* kenshoDb.saveRecommendations rejects: the catch reports a generation
\* error, then finally { setIsLoading(false) }
GenerateStoreFailure ==
  /\ mounted /\ genPc = "saveRecommendations"
  /\ ~db.available
  /\ apiError' = ErrorMessage(StorageUnavailable)
  /\ isLoading' = FALSE
  /\ genPc' = "idle"
  /\ genReq' = NoPrefs
  /\ OtherOp
  /\ UNCHANGED <<loadVars, apVars, autoplanDescription, clearPc,
                 localStorage, destination, movie, artist, author,
                 recommendations, itinerary, isGenerated, isDbLoading, db,
                 timers>>
  /\ Did("GenerateStoreFailure")

GenerateFinish ==
  /\ mounted /\ genPc = "saveSession"
  /\ db.available
  /\ isLoading' = FALSE
  /\ genPc' = "idle"
  /\ genReq' = NoPrefs
  /\ OtherOp
  /\ UNCHANGED <<loadVars, apiError, apVars, autoplanDescription,
                 clearPc, localStorage, destination, movie, artist, author,
                 recommendations, itinerary, isGenerated, isDbLoading, db,
                 timers>>
  /\ Did("GenerateFinish")

\* ---------------------------------------------------------- handleAutoplan
PreconditionError ==
  <<"Please generate recommendations first and provide a description of what you're looking for.">>

NoMatchError == <<"No matching recommendations found. Try a different description.">>

ModelError == <<"Failed to generate autoplan. Please try again.">>

ParseError == <<"Could not parse AI response">>

\* error.message || 'Failed to generate autoplan. Please try again.'
AutoplanErrors == {ModelError, ParseError}

SelectedRecommendationsUnfiltered(recs, selectedIds) == recs

\* recommendations.filter(rec => selectedIds.includes(rec.id))
SelectedRecommendations(recs, selectedIds) ==
  SelectSeq(recs, LAMBDA rec : rec \in selectedIds)

AutoplanItemOnePerDay(rec, index, desc) ==
  [id |-> rec, day |-> index + 1, notes |-> AutoplanNote(desc),
   order |-> index]

\* the item built from the index-th (0-based) selected recommendation
AutoplanItem(rec, index, desc) ==
  [id |-> rec, day |-> (index \div 2) + 1, notes |-> AutoplanNote(desc),
   order |-> index]

NewItineraryItems(selected, desc) ==
  [i \in 1..Len(selected) |-> AutoplanItem(selected[i], i - 1, desc)]

AutoplanResetClosure ==
  /\ apPc' = "idle"
  /\ apRecs' = <<>> /\ apDesc' = "" /\ apPrev' = <<>> /\ apItems' = <<>>
  /\ apIdx' = 0
  /\ apClean' = TRUE

GeminiKeyError ==
  <<"Gemini API key not found. Please add VITE_GEMINI_API_KEY to your environment variables.">>

\* a click on 'Autoplan My Trip': the precondition, the key, then the model
\* call
AutoplanStart ==
  /\ Ready /\ apPc = "idle"
  /\ hasInputs /\ ~isAutoplanning /\ Trimmed(autoplanDescription) # ""
  /\ IF ~hasRequiredInputs \/ "VITE_GEMINI_API_KEY" \notin env
     THEN /\ autoplanError' = (IF ~hasRequiredInputs THEN PreconditionError
                               ELSE GeminiKeyError)
          /\ apClean' = TRUE
          /\ UNCHANGED <<apPc, apRecs, apDesc, apPrev, apItems, apIdx,
                         isAutoplanning>>
     ELSE /\ isAutoplanning' = TRUE
          /\ autoplanError' = <<>>
          /\ apRecs' = recommendations
          /\ apDesc' = autoplanDescription
          /\ apPrev' = itinerary
          /\ apPc' = "generateContent"
          /\ apClean' = TRUE
          /\ UNCHANGED <<apItems, apIdx>>
  /\ clrClean' = (clearPc = "idle")
  /\ UNCHANGED <<loadVars, genVars, autoplanDescription, clearPc,
                 localStorage, destination, movie, artist, author,
                 recommendations, itinerary, isGenerated, isDbLoading, db,
                 timers>>
  /\ CountOp
  /\ Did(IF ~hasRequiredInputs THEN "AutoplanStart:precondition"
         ELSE IF "VITE_GEMINI_API_KEY" \notin env THEN "AutoplanStart:nokey"
         ELSE "AutoplanStart")

AutoplanFailureWithoutFinally(e) ==
  /\ mounted /\ apPc = "generateContent"
  /\ autoplanError' = e
  /\ UNCHANGED isAutoplanning
  /\ AutoplanResetClosure
  /\ clrClean' = (clearPc = "idle")
  /\ UNCHANGED <<loadVars, genVars, autoplanDescription, clearPc,
                 localStorage, destination, movie, artist, author,
                 recommendations, itinerary, isGenerated, isDbLoading, db,
                 timers>>
  /\ UNCHANGED ops
  /\ Did("AutoplanFailure")

\* the model call throws, or its text holds no quoted string
AutoplanFailure(e) ==
  /\ mounted /\ apPc = "generateContent"
  /\ autoplanError' = e
  /\ isAutoplanning' = FALSE
  /\ AutoplanResetClosure
  /\ clrClean' = (clearPc = "idle")
  /\ UNCHANGED <<loadVars, genVars, autoplanDescription, clearPc,
                 localStorage, destination, movie, artist, author,
                 recommendations, itinerary, isGenerated, isDbLoading, db,
                 timers>>
  /\ UNCHANGED ops
  /\ Did("AutoplanFailure")

AutoplanClearMemoryOnly(s) == [s EXCEPT !.itinerary = <<>>]

\* setItinerary([]) and the call of kenshoDb.clearItinerary
AutoplanClear(s) ==
  [s EXCEPT !.itinerary = <<>>, !.db = DbClearItinerary(@)]

\* the model's reply parses to selectedIds
AutoplanResponse(selectedIds) ==
  /\ mounted /\ apPc = "generateContent"
  /\ LET selected == SelectedRecommendations(apRecs, selectedIds)
     IN IF Len(selected) = 0
        THEN /\ autoplanError' = NoMatchError
             /\ isAutoplanning' = FALSE
             /\ AutoplanResetClosure
             /\ UNCHANGED <<destination, movie, artist, author,
                            recommendations, itinerary, isGenerated,
                            isDbLoading, db, timers>>
        ELSE /\ Apply(Commit(AutoplanClear(Cur), {"itinerary"}))
             /\ apItems' = NewItineraryItems(selected, apDesc)
             /\ apPc' = "clearItinerary"
             /\ UNCHANGED <<apRecs, apDesc, apPrev, apIdx, apClean,
                            isAutoplanning, autoplanError>>
  /\ clrClean' = (clearPc = "idle")
  /\ UNCHANGED <<loadVars, genVars, autoplanDescription, clearPc,
                 localStorage>>
  /\ UNCHANGED ops
  /\ Did(IF Len(SelectedRecommendations(apRecs, selectedIds)) = 0
         THEN "AutoplanResponse:nomatch" ELSE "AutoplanResponse")

\* after clearItinerary: setItinerary(newItineraryItems) and the first
\* kenshoDb.addToItinerary of the loop
\* kenshoDb.clearItinerary rejects: the catch shows the error's message,
\* then finally { setIsAutoplanning(false) }
StoreError == <<"StorageUnavailable">>

AutoplanStoreFailure ==
  /\ mounted /\ apPc = "clearItinerary"
  /\ ~db.available
  /\ autoplanError' = StoreError
  /\ isAutoplanning' = FALSE
  /\ AutoplanResetClosure
  /\ clrClean' = (clearPc = "idle")
  /\ UNCHANGED <<loadVars, genVars, autoplanDescription, clearPc,
                 localStorage, destination, movie, artist, author,
                 recommendations, itinerary, isGenerated, isDbLoading, db,
                 timers>>
  /\ UNCHANGED ops
  /\ Did("AutoplanStoreFailure")

AutoplanSetItinerary ==
  /\ mounted /\ apPc = "clearItinerary"
  /\ db.available
  /\ Apply(Commit([Cur EXCEPT !.itinerary = apItems,
                              !.db = DbAddToItinerary(@, apItems[1])],
                  {"itinerary"}))
  /\ apIdx' = 1
  /\ apPc' = "addToItinerary"
  /\ clrClean' = (clearPc = "idle")
  /\ UNCHANGED <<loadVars, genVars, autoplanDescription, clearPc,
                 localStorage, apRecs, apDesc, apPrev, apItems, apClean,
                 isAutoplanning, autoplanError>>
  /\ UNCHANGED ops
  /\ Did("AutoplanSetItinerary")

\* the next kenshoDb.addToItinerary of the loop
AutoplanNextAdd ==
  /\ mounted /\ apPc = "addToItinerary"
  /\ apIdx < Len(apItems)
  /\ db' = DbAddToItinerary(db, apItems[apIdx + 1])
  /\ apIdx' = apIdx + 1
  /\ clrClean' = (clearPc = "idle")
  /\ UNCHANGED <<loadVars, genVars, autoplanDescription, clearPc,
                 localStorage, apPc, apRecs, apDesc, apPrev, apItems, apClean,
                 isAutoplanning, autoplanError, destination, movie, artist,
                 author, recommendations, itinerary, isGenerated, isDbLoading,
                 timers>>
  /\ UNCHANGED ops
  /\ Did("AutoplanNextAdd")

\* setAutoplanDescription(''), then finally { setIsAutoplanning(false) }
AutoplanFinish ==
  /\ mounted /\ apPc = "addToItinerary"
  /\ apIdx = Len(apItems)
  /\ autoplanDescription' = ""
  /\ isAutoplanning' = FALSE
  /\ AutoplanResetClosure
  /\ clrClean' = (clearPc = "idle")
  /\ UNCHANGED <<loadVars, genVars, clearPc, localStorage, autoplanError,
                 destination, movie, artist, author, recommendations,
                 itinerary, isGenerated, isDbLoading, db, timers>>
  /\ UNCHANGED ops
  /\ Did(IF apClean /\ apPrev # <<>> THEN "AutoplanFinish:replaced"
         ELSE "AutoplanFinish")

\* ------------------------------------------------------ the specification
Next ==
  \/ Mount
  \/ LoadPreferences
  \/ LoadFallback
  \/ LoadRecommendations
  \/ LoadItinerary
  \/ LoadSession
  \/ Migrate
  \/ RunPendingResetEffect
  \/ LoadFinish
  \/ Unmount
  \/ \E f \in PrefFields, v \in PrefValues : SetPreference(f, v)
  \/ \E t \in timers : TimerFire(t)
  \/ Tick
  \/ \E rec \in RecIds : AddToItinerary(rec)
  \/ \E id \in RecIds : RemoveFromItinerary(id)
  \/ \E id \in RecIds, day \in Days : UpdateItineraryDay(id, day)
  \/ \E id \in RecIds, notes \in {<<>>, UserNote} : UpdateItineraryNotes(id, notes)
  \/ \E v \in DescValues : SetAutoplanDescription(v)
  \/ ResetMobile
  \/ clearSavedInputs
  \/ \E h \in {"resetGeneration", "clearUserInputs", "clearAllData"} : ClearStart(h)
  \/ ClearFinish
  \/ GenerateStart
  \/ \E mapped \in ApiResults : GenerateSuccess(mapped)
  \/ \E e \in ApiErrors : GenerateFailure(e)
  \/ GenerateSaveSession
  \/ GenerateStoreFailure
  \/ GenerateFinish
  \/ AutoplanStart
  \/ \E e \in AutoplanErrors : AutoplanFailure(e)
  \/ \E ids \in SUBSET RecIds : AutoplanResponse(ids)
  \/ AutoplanStoreFailure
  \/ AutoplanSetItinerary
  \/ AutoplanNextAdd
  \/ AutoplanFinish

Spec == Init /\ [][Next]_vars

\* ------------------------------------------------ focused specifications
\* The state right after a first generation: preferences entered and saved,
\* recommendations generated, nothing in the itinerary.
GeneratedPrefs == [destination |-> "a", movie |-> "a", artist |-> "",
                   author |-> ""]

GeneratedRecs == [i \in 1..MaxRecId |-> i]

GeneratedState ==
  /\ mounted = TRUE
  /\ isDbLoading = FALSE
  /\ loadPc = "done"
  /\ resetPending = FALSE
  /\ destination = "a" /\ movie = "a" /\ artist = "" /\ author = ""
  /\ recommendations = GeneratedRecs
  /\ itinerary = <<>>
  /\ isGenerated = TRUE
  /\ isLoading = FALSE
  /\ apiError = ""
  /\ autoplanDescription = ""
  /\ isAutoplanning = FALSE
  /\ autoplanError = <<>>
  /\ db = [userPreferences |-> <<GeneratedPrefs>>,
           recommendations |-> GeneratedRecs,
           itinerary |-> {},
           session |-> <<[isGenerated |-> TRUE]>>,
           available |-> TRUE]
  /\ localStorage = LsSetPreferences(NoLegacy, GeneratedPrefs)
  /\ timers = NoTimers
  /\ genPc = "idle"
  /\ genReq = NoPrefs
  /\ apPc = "idle"
  /\ apRecs = <<>> /\ apDesc = "" /\ apPrev = <<>> /\ apItems = <<>>
  /\ apIdx = 0
  /\ apClean = TRUE
  /\ clearPc = "idle"
  /\ clrClean = TRUE
  /\ imported = {}
  /\ held = <<>>

InitGenerated ==
  /\ InitEnv /\ GeneratedState /\ InitMap /\ InitHelpers
  /\ ops = 0 /\ lastOp = "" /\ prefsCleared = FALSE
  /\ error = <<>> /\ selectedRec = <<>>

\* every operation on the itinerary, autoplan and its interleavings
NextItinerary ==
  \/ \E rec \in RecIds : AddToItinerary(rec)
  \/ \E id \in RecIds : RemoveFromItinerary(id)
  \/ \E id \in RecIds, day \in Days : UpdateItineraryDay(id, day)
  \/ \E id \in RecIds, notes \in {<<>>, UserNote} : UpdateItineraryNotes(id, notes)
  \/ \E v \in DescValues : SetAutoplanDescription(v)
  \/ AutoplanStart
  \/ \E e \in AutoplanErrors : AutoplanFailure(e)
  \/ \E ids \in SUBSET RecIds : AutoplanResponse(ids)
  \/ AutoplanSetItinerary
  \/ AutoplanNextAdd
  \/ AutoplanFinish
  \/ ResetMobile
  \/ ClearStart("clearAllData")
  \/ ClearFinish

SpecItinerary == InitGenerated /\ [][NextItinerary]_vars

\* the three itinerary edits alone
NextEdits ==
  \/ \E rec \in RecIds : AddToItinerary(rec)
  \/ \E id \in RecIds : RemoveFromItinerary(id)
  \/ \E id \in RecIds, day \in Days : UpdateItineraryDay(id, day)

SpecEdits == InitGenerated /\ [][NextEdits]_vars

\* the dots of the mobile radar chart
NextDots ==
  \/ \E rec \in RecIds : HandleDotClick(rec)
  \/ CardAdd
  \/ CardClose
  \/ TapElsewhere
  \/ \E id \in RecIds : RemoveFromItinerary(id)

SpecDots == InitGenerated /\ [][NextDots]_vars

\* autoplan and the itinerary edits a user can make while it is suspended
NextAutoplan ==
  \/ \E rec \in RecIds : AddToItinerary(rec)
  \/ \E id \in RecIds : RemoveFromItinerary(id)
  \/ \E id \in RecIds, day \in Days : UpdateItineraryDay(id, day)
  \/ \E v \in DescValues : SetAutoplanDescription(v)
  \/ AutoplanStart
  \/ \E e \in AutoplanErrors : AutoplanFailure(e)
  \/ \E ids \in SUBSET RecIds : AutoplanResponse(ids)
  \/ AutoplanSetItinerary
  \/ AutoplanNextAdd
  \/ AutoplanFinish

SpecAutoplan == InitGenerated /\ [][NextAutoplan]_vars

\* a preference edit while autoplan is suspended at one of its awaits
NextStaleAutoplan ==
  \/ \E f \in PrefFields, v \in {"", "a", "b"} : SetPreference(f, v)
  \/ \E t \in timers : TimerFire(t)
  \/ Tick
  \/ \E v \in DescValues : SetAutoplanDescription(v)
  \/ AutoplanStart
  \/ \E e \in AutoplanErrors : AutoplanFailure(e)
  \/ \E ids \in SUBSET RecIds : AutoplanResponse(ids)
  \/ AutoplanSetItinerary
  \/ AutoplanNextAdd
  \/ AutoplanFinish

SpecStaleAutoplan == InitGenerated /\ [][NextStaleAutoplan]_vars

\* what a preference change, a reset and a clear do to the itinerary
NextReset ==
  \/ \E rec \in RecIds : AddToItinerary(rec)
  \/ \E id \in RecIds : RemoveFromItinerary(id)
  \/ \E f \in PrefFields, v \in {"", "a"} : SetPreference(f, v)
  \/ \E t \in timers : TimerFire(t)
  \/ Tick
  \/ ResetMobile
  \/ \E h \in {"resetGeneration", "clearAllData"} : ClearStart(h)
  \/ ClearFinish
  \/ GenerateStart
  \/ GenerateSuccess(GeneratedRecs)
  \/ GenerateSaveSession
  \/ GenerateFinish

SpecReset == InitGenerated /\ [][NextReset]_vars

\* preferences, their debounced save, and generation
InitFresh == Init /\ localStorage = NoLegacy

NextPreferences ==
  \/ Mount
  \/ LoadPreferences
  \/ LoadRecommendations
  \/ LoadItinerary
  \/ LoadSession
  \/ Migrate
  \/ RunPendingResetEffect
  \/ LoadFinish
  \/ Unmount
  \/ \E v \in PrefValues : SetPreference("destination", v)
  \/ \E f \in PrefFields, v \in {"", "a"} : SetPreference(f, v)
  \/ \E t \in timers : TimerFire(t)
  \/ Tick
  \/ clearSavedInputs
  \/ ClearStart("clearUserInputs")
  \/ ClearFinish
  \/ GenerateStart
  \/ \E mapped \in ApiResults : GenerateSuccess(mapped)
  \/ \E e \in ApiErrors : GenerateFailure(e)
  \/ GenerateSaveSession
  \/ GenerateFinish

SpecPreferences == InitFresh /\ [][NextPreferences]_vars

\* mounts, migration, and what survives a reload
NextLifecycle ==
  \/ Mount
  \/ LoadPreferences
  \/ LoadRecommendations
  \/ LoadItinerary
  \/ LoadSession
  \/ Migrate
  \/ RunPendingResetEffect
  \/ LoadFinish
  \/ Unmount
  \/ \E v \in {"", "a"} : SetPreference("destination", v)
  \/ \E t \in timers : TimerFire(t)
  \/ Tick
  \/ \E id \in RecIds : RemoveFromItinerary(id)
  \/ \E h \in {"clearUserInputs", "clearAllData"} : ClearStart(h)
  \/ ClearFinish
  \/ GenerateStart
  \/ \E mapped \in ApiResults : GenerateSuccess(mapped)
  \/ GenerateSaveSession
  \/ GenerateFinish

SpecLifecycle == Init /\ [][NextLifecycle]_vars

\* ------------------------------------------------ MapInterface: the chat
MessageValues == {"", " ", "q"}

ReplyText == "t"

Fallback ==
  "I'm having trouble connecting right now, but I'm here to help with your travel planning! Feel free to ask me about routes, local recommendations, or anything about your destination."

\* how the try block ends: with the model's text, with a rejected request,
\* or with an exception thrown while the reply is read
ChatOutcomes == {"text", "transport", "parse"}

\* try { ... return result.text } catch { return the apology }
generateAIResponse(outcome) == IF outcome = "text" THEN ReplyText ELSE Fallback

IsBlankUntrimmed(msg) == msg = ""

\* !currentMessage.trim()
IsBlank(msg) == Trimmed(msg) = ""

\* onChange of the chat input, or a click on a suggestion
SetCurrentMessage(v) ==
  /\ currentMessage # v
  /\ currentMessage' = v
  /\ UNCHANGED <<chatMessages, isTyping, chatCalls, sends>>
  /\ DidChat("SetCurrentMessage")

\* the send button or the Enter key, up to the await of generateAIResponse
HandleSendMessage ==
  /\ IF IsBlank(currentMessage)
     THEN /\ UNCHANGED chatVars
          /\ DidChat("HandleSendMessage:blank")
     ELSE /\ sends < MaxSends
          /\ sends' = sends + 1
          /\ chatMessages' = Append(chatMessages,
                                    [type |-> "user", content |-> currentMessage,
                                     of |-> sends + 1])
          /\ currentMessage' = ""
          /\ isTyping' = TRUE
          /\ chatCalls' = chatCalls \cup {sends + 1}
          /\ DidChat("HandleSendMessage")

\* generateAIResponse returns; handleSendMessage appends the assistant's
\* message, then finally { setIsTyping(false) }
ChatResponse(call, outcome) ==
  /\ call \in chatCalls
  /\ chatMessages' = Append(chatMessages,
                            [type |-> "assistant",
                             content |-> generateAIResponse(outcome),
                             of |-> call])
  /\ isTyping' = FALSE
  /\ chatCalls' = chatCalls \ {call}
  /\ UNCHANGED <<currentMessage, sends>>
  /\ DidChat("ChatResponse")

NextChat ==
  \/ \E v \in MessageValues : SetCurrentMessage(v)
  \/ HandleSendMessage
  \/ \E call \in 1..MaxSends, outcome \in ChatOutcomes : ChatResponse(call, outcome)

\* every generateContent call settles
ChatFairness ==
  \A call \in 1..MaxSends :
    WF_vars(\E outcome \in ChatOutcomes : ChatResponse(call, outcome))

SpecChat == InitFresh /\ [][NextChat]_vars /\ ChatFairness

\* --------------------------------------------- MapInterface: the markers
\* coordinates are in units of 0.0001 degree; an optional number is <<>> when
\* absent and <<n>> when stored
DefaultCoordinates == <<1396917, 356895>>

Latitudes == {<<>>, <<0>>, <<356762>>}

Longitudes == {<<>>, <<0>>, <<1397649>>}

\* a stored itinerary item or recommendation, as far as the map reads it
Item(i, nm, la, lo) ==
  [id |-> i, name |-> nm, category |-> "c", image |-> "img", insight |-> "ins",
   latitude |-> la, longitude |-> lo]

\* the truth value JavaScript gives an optional number
TruthyNumber(n) == n # <<>> /\ n[1] # 0

\* if (item.latitude && item.longitude) [lng, lat] else Tokyo
convertToMapLocation(item, type) ==
  [id |-> item.id, name |-> item.name, category |-> item.category,
   image |-> item.image, insight |-> item.insight,
   coordinates |-> IF TruthyNumber(item.latitude) /\ TruthyNumber(item.longitude)
                   THEN <<item.longitude[1], item.latitude[1]>>
                   ELSE DefaultCoordinates,
   type |-> type]

SeqsUpTo(S, n) == UNION {[1..k -> S] : k \in 0..n}

DistinctIds(items) ==
  \A j, k \in 1..Len(items) : items[j].id = items[k].id => j = k

\* what kenshoDb.getItinerary resolves with: items with distinct ids
StoredItineraries ==
  {its \in SeqsUpTo({Item(i, "n", <<356762>>, <<1397649>>) : i \in RecIds},
                    MaxLocations) : DistinctIds(its)}

\* what the parent passes as the locations prop: locations with distinct
\* ids, which may be ids of dbLocations
PropLocations ==
  {locs \in SeqsUpTo({convertToMapLocation(Item(i, "n", <<356762>>, <<1397649>>),
                                           "recommendation") : i \in RecIds},
                     MaxLocations) : DistinctIds(locs)}

\* 1. remove the markers of every location, so that each is built again
RemoveAll(ref, all) == <<>>

\* 1. remove the markers of locations no longer in the list
RemoveStale(ref, all) ==
  [id \in {m \in DOMAIN ref : \E k \in 1..Len(all) : all[k].id = m} |-> ref[id]]

\* 2. allLocations.forEach: a new Marker for each id without one
RECURSIVE AddMissing(_, _, _, _)
AddMissing(ref, n, all, k) ==
  IF k > Len(all) THEN [ref |-> ref, count |-> n]
  ELSE IF all[k].id \in DOMAIN ref THEN AddMissing(ref, n, all, k + 1)
  ELSE AddMissing([id \in DOMAIN ref \cup {all[k].id} |->
                     IF id = all[k].id THEN n + 1 ELSE ref[id]],
                  n + 1, all, k + 1)

hasLocations(displayedMarkerIds, all) == Len(all) > 0

\* 3. displayedMarkerIds.length === 0 && allLocations.length > 0
hasJustAddedFirstMarkers(displayedMarkerIds, all) ==
  displayedMarkerIds = {} /\ Len(all) > 0

\* the marker effect after a render with these dependencies
MarkerEffect(dbl, locs, loaded) ==
  IF ~loaded
  THEN UNCHANGED <<markersRef, markerCount>> /\ fitted' = FALSE
  ELSE LET all == dbl \o locs
           synced == AddMissing(RemoveStale(markersRef, all), markerCount, all, 1)
       IN  /\ synced.count <= MaxMarkers
           /\ markersRef' = synced.ref
           /\ markerCount' = synced.count
           /\ fitted' = hasJustAddedFirstMarkers(DOMAIN markersRef, all)

\* map.current.on('load', ...)
MapLoad ==
  /\ ~mapLoaded
  /\ mapLoaded' = TRUE
  /\ UNCHANGED <<dbLocations, locations, locPc>>
  /\ MarkerEffect(dbLocations, locations, TRUE)
  /\ DidMarkers("MapLoad")

\* loadLocationsFromDB when getItinerary resolves
LoadLocationsFromDB(items) ==
  /\ locPc = "getItinerary"
  /\ locPc' = "done"
  /\ dbLocations' = [k \in 1..Len(items) |->
                       convertToMapLocation(items[k], "itinerary")]
  /\ UNCHANGED <<locations, mapLoaded>>
  /\ MarkerEffect([k \in 1..Len(items) |->
                     convertToMapLocation(items[k], "itinerary")],
                  locations, mapLoaded)
  /\ DidMarkers("LoadLocationsFromDB")

\* loadLocationsFromDB when getItinerary rejects: the catch logs
LoadLocationsFailure ==
  /\ locPc = "getItinerary"
  /\ locPc' = "done"
  /\ fitted' = FALSE
  /\ UNCHANGED <<dbLocations, locations, mapLoaded, markersRef, markerCount>>
  /\ DidMarkers("LoadLocationsFailure")

\* the parent renders the map with another locations prop
SetLocations(locs) ==
  /\ locs # locations
  /\ locations' = locs
  /\ UNCHANGED <<dbLocations, mapLoaded, locPc>>
  /\ MarkerEffect(dbLocations, locs, mapLoaded)
  /\ DidMarkers("SetLocations")

NextMarkers ==
  \/ MapLoad
  \/ \E items \in StoredItineraries : LoadLocationsFromDB(items)
  \/ LoadLocationsFailure
  \/ \E locs \in PropLocations : SetLocations(locs)

SpecMarkers == InitFresh /\ [][NextMarkers]_vars

\* --------------------------------------- MapInterface: the location search
LocationValues == {"", "Tokyo"}

\* handleLocationSearch up to the await of the geocoder's reply; the token
\* goes into the URL as mapboxgl.accessToken holds it
HandleLocationSearch(userLocation) ==
  /\ ~isSearching
  /\ isSearching' = ~IsBlank(userLocation)
  /\ lastOp' = (IF IsBlank(userLocation) THEN "HandleLocationSearch:blank"
                ELSE "HandleLocationSearch")
  /\ UnchangedCompass
  /\ UNCHANGED <<chatVars, markerVars, helperVars>>

\* the geocoder's reply, with a place, without one, or a rejected fetch that
\* the catch logs; finally { setIsSearching(false) }
LocationSearchSettles ==
  /\ isSearching
  /\ isSearching' = FALSE
  /\ lastOp' = "LocationSearchSettles"
  /\ UnchangedCompass
  /\ UNCHANGED <<chatVars, markerVars, helperVars>>

\* ------------------------------------------------ missing API credentials
InitCredentials ==
  /\ env \in SUBSET Credentials
  /\ GeneratedState /\ InitMap /\ InitHelpers
  /\ ops = 0 /\ lastOp = "" /\ prefsCleared = FALSE
  /\ error = <<>> /\ selectedRec = <<>>

\* every operation that uses a credential
NextCredentials ==
  \/ ClearStart("resetGeneration")
  \/ ClearFinish
  \/ GenerateStart
  \/ \E e \in ApiErrors : GenerateFailure(e)
  \/ \E v \in DescValues : SetAutoplanDescription(v)
  \/ AutoplanStart
  \/ \E e \in AutoplanErrors : AutoplanFailure(e)
  \/ \E v \in MessageValues : SetCurrentMessage(v)
  \/ HandleSendMessage
  \/ \E call \in 1..MaxSends, outcome \in ChatOutcomes : ChatResponse(call, outcome)
  \/ \E userLocation \in LocationValues : HandleLocationSearch(userLocation)
  \/ LocationSearchSettles

SpecCredentials == InitCredentials /\ [][NextCredentials]_vars

\* the ids the model's reply may name: none, one or two of the recommendations
ReplyIds == {1, 2}

\* every path through handleAutoplan, with any subset of the credentials
\* configured
NextAutoplanRuns ==
  \/ \E v \in DescValues : SetAutoplanDescription(v)
  \/ AutoplanStart
  \/ \E e \in AutoplanErrors : AutoplanFailure(e)
  \/ \E ids \in SUBSET ReplyIds : AutoplanResponse(ids)
  \/ AutoplanSetItinerary
  \/ AutoplanNextAdd
  \/ AutoplanFinish

\* every promise handleAutoplan awaits settles, and the continuation after
\* it runs
AutoplanFairness ==
  /\ WF_vars((\E e \in AutoplanErrors : AutoplanFailure(e)) \/
             (\E ids \in SUBSET ReplyIds : AutoplanResponse(ids)))
  /\ WF_vars(AutoplanSetItinerary)
  /\ WF_vars(AutoplanNextAdd)
  /\ WF_vars(AutoplanFinish)

SpecAutoplanRuns ==
  InitCredentials /\ [][NextAutoplanRuns]_vars /\ AutoplanFairness

\* ------------------------------------------------------ helper functions
\* the state in which a helper function is about to be called with a
InitCall(a) ==
  /\ InitEnv
  /\ InitView
  /\ InitMap
  /\ db = EmptyDb
  /\ localStorage = NoLegacy
  /\ arg = a
  /\ result = <<>>

\* the call returns r
Return(r) == result = <<>> /\ result' = <<r>> /\ UNCHANGED arg

ConvertArgs ==
  {[item |-> Item(i, nm, la, lo), type |-> t] :
     i \in RecIds, nm \in {"a", "b"}, la \in Latitudes, lo \in Longitudes,
     t \in {"itinerary", "recommendation"}}

CallConvertToMapLocation ==
  /\ Return(convertToMapLocation(arg.item, arg.type))
  /\ DidCall("convertToMapLocation")

SpecConvert ==
  (\E a \in ConvertArgs : InitCall(a)) /\ [][CallConvertToMapLocation]_vars

\* ----------------------------------------------- CulturalCompass: mapping
\* a tag name is the tuple of its characters
JazzBar == <<"J", "a", "z", "z", " ", "B", "a", "r">>

MusicMuseum == <<"M", "u", "s", "i", "c", " ", "M", "u", "s", "e", "u", "m">>

ArtCafe == <<"A", "r", "t", " ", "C", "a", "f", "e">>

Park == <<"P", "a", "r", "k">>

Food == <<"F", "O", "O", "D">>

Theatre == <<"T", "h", "e", "a", "t", "r", "e">>

Concert == <<"C", "o", "n", "c", "e", "r", "t">>

TagNames == {JazzBar, MusicMuseum, ArtCafe, Park, Food, Theatre, Concert}

Letters ==
  {"A", "B", "C", "D", "E", "F", "G", "H", "I", "J", "K", "L", "M",
   "N", "O", "P", "Q", "R", "S", "T", "U", "V", "W", "X", "Y", "Z"}

Lower ==
  [c \in Letters |->
     CASE c = "A" -> "a"
       [] c = "B" -> "b"
       [] c = "C" -> "c"
       [] c = "D" -> "d"
       [] c = "E" -> "e"
       [] c = "F" -> "f"
       [] c = "G" -> "g"
       [] c = "H" -> "h"
       [] c = "I" -> "i"
       [] c = "J" -> "j"
       [] c = "K" -> "k"
       [] c = "L" -> "l"
       [] c = "M" -> "m"
       [] c = "N" -> "n"
       [] c = "O" -> "o"
       [] c = "P" -> "p"
       [] c = "Q" -> "q"
       [] c = "R" -> "r"
       [] c = "S" -> "s"
       [] c = "T" -> "t"
       [] c = "U" -> "u"
       [] c = "V" -> "v"
       [] c = "W" -> "w"
       [] c = "X" -> "x"
       [] c = "Y" -> "y"
       [] c = "Z" -> "z"]

\* String.prototype.toLowerCase
toLowerCase(str) ==
  [k \in 1..Len(str) |-> IF str[k] \in Letters THEN Lower[str[k]] ELSE str[k]]

DineKeywords ==
  {<<"r", "e", "s", "t", "a", "u", "r", "a", "n", "t">>,
   <<"h", "o", "t", "e", "l">>,
   <<"b", "a", "r">>,
   <<"c", "a", "f", "e">>,
   <<"d", "i", "n", "i", "n", "g">>,
   <<"f", "o", "o", "d">>}

ListenKeywords ==
  {<<"m", "u", "s", "i", "c">>,
   <<"c", "o", "n", "c", "e", "r", "t">>,
   <<"r", "e", "c", "o", "r", "d">>,
   <<"j", "a", "z", "z">>}

SeeKeywords ==
  {<<"m", "u", "s", "e", "u", "m">>,
   <<"a", "r", "t">>,
   <<"g", "a", "l", "l", "e", "r", "y">>,
   <<"t", "h", "e", "a", "t", "r", "e">>,
   <<"v", "i", "e", "w">>,
   <<"l", "a", "n", "d", "m", "a", "r", "k">>}

Segments == {"dine", "listen", "see", "explore"}

\* tagNames.some(t => t.includes(...) || ...)
SomeTagIncludes(tags, words) ==
  \E k \in 1..Len(tags), word \in words : includes(toLowerCase(tags[k].name), word)

mapTagsToSegmentListenFirst(tags) ==
  IF SomeTagIncludes(tags, ListenKeywords) THEN "listen"
  ELSE IF SomeTagIncludes(tags, DineKeywords) THEN "dine"
  ELSE IF SomeTagIncludes(tags, SeeKeywords) THEN "see"
  ELSE "explore"

mapTagsToSegment(tags) ==
  IF SomeTagIncludes(tags, DineKeywords) THEN "dine"
  ELSE IF SomeTagIncludes(tags, ListenKeywords) THEN "listen"
  ELSE IF SomeTagIncludes(tags, SeeKeywords) THEN "see"
  ELSE "explore"

TagLists == SeqsUpTo({[name |-> nm] : nm \in TagNames}, MaxTags)

CallMapTagsToSegment ==
  /\ Return(mapTagsToSegment(arg))
  /\ DidCall("mapTagsToSegment")

SpecSegment ==
  (\E tags \in TagLists : InitCall(tags)) /\ [][CallMapTagsToSegment]_vars

\* popularities are in hundredths; a fraction is [num, den] with den > 0
Popularities == {0, 50, 100}

\* Math.random() in hundredths
Randoms == {0, 99}

\* data.results.entities: the entity at position k has entity_id k
EntityLists ==
  UNION {{[k \in 1..n |-> [entity_id |-> k, popularity |-> pops[k],
                           tags |-> tagsOf[k]]] :
            pops \in [1..n -> Popularities],
            tagsOf \in [1..n -> {<<>>, <<[name |-> JazzBar]>>}]} :
         n \in 0..MaxEntities}

compareAscending(a, b) == a.popularity - b.popularity

\* (a, b) => b.popularity - a.popularity
compare(a, b) == b.popularity - a.popularity

\* e goes after every element that does not sort after it
InsertBy(e, sorted) ==
  LET after == {k \in 1..Len(sorted) : compare(sorted[k], e) > 0}
      at == IF after = {} THEN Len(sorted) + 1
            ELSE CHOOSE k \in after : \A j \in after : k <= j
  IN  SubSeq(sorted, 1, at - 1) \o <<e>> \o SubSeq(sorted, at, Len(sorted))

\* [...entities].sort(compare): Array.prototype.sort is stable
RECURSIVE sort(_)
sort(entities) ==
  IF entities = <<>> THEN <<>>
  ELSE InsertBy(entities[Len(entities)],
                sort(SubSeq(entities, 1, Len(entities) - 1)))

\* sortedEntities.length > 1 ? index / (sortedEntities.length - 1) : 0
popularityRank(index, length) ==
  IF length > 1 THEN [num |-> index, den |-> length - 1]
  ELSE [num |-> 0, den |-> 1]

segmentAngles ==
  [segment \in Segments |->
     CASE segment = "dine" -> 0 [] segment = "listen" -> 90
       [] segment = "see" -> 180 [] segment = "explore" -> 270]

getRadarCoordinatesInward(segment, rank, random) ==
  [angle |-> segmentAngles[segment] * 100 + (random * 70 - 3500),
   radius |-> [num |-> 25 * rank.den + rank.num * 70, den |-> rank.den]]

\* the point in polar form about (100, 100), the angle in hundredths of a
\* degree: x = 100 + cos(angle) * radius, y = 100 + sin(angle) * radius
getRadarCoordinates(segment, rank, random) ==
  [angle |-> segmentAngles[segment] * 100 + (random * 70 - 3500),
   radius |-> [num |-> 25 * rank.den + (rank.den - rank.num) * 70,
               den |-> rank.den]]

\* sortedEntities.map((entity, index) => ...), index counted from 0
mappedRecommendations(entities, randoms) ==
  LET sortedEntities == sort(entities)
  IN  [k \in 1..Len(sortedEntities) |->
         LET entity == sortedEntities[k]
             segment == mapTagsToSegment(entity.tags)
             point == getRadarCoordinates(
                        segment, popularityRank(k - 1, Len(sortedEntities)),
                        randoms[k])
         IN  [id |-> entity.entity_id, segment |-> segment,
              angle |-> point.angle, radius |-> point.radius]]

CallMappedRecommendations ==
  /\ \E randoms \in [1..Len(arg) -> Randoms] :
       Return(mappedRecommendations(arg, randoms))
  /\ DidCall("mappedRecommendations")

SpecMapping ==
  (\E entities \in EntityLists : InitCall(entities))
    /\ [][CallMappedRecommendations]_vars

\* every operation while the Local Store is unavailable
InitUnavailable ==
  /\ InitEnv
  /\ InitView
  /\ InitMap
  /\ InitHelpers
  /\ db = UnavailableDb
  /\ localStorage \in LegacyStores

NextUnavailable ==
  \/ Mount
  \/ LoadFallback
  \/ \E t \in timers : TimerFire(t)
  \/ Tick
  \/ \E rec \in RecIds : AddToItinerary(rec)
  \/ \E id \in RecIds : RemoveFromItinerary(id)
  \/ \E id \in RecIds, day \in Days : UpdateItineraryDay(id, day)
  \/ \E v \in DescValues : SetAutoplanDescription(v)
  \/ AutoplanStart
  \/ \E ids \in SUBSET RecIds : AutoplanResponse(ids)
  \/ AutoplanStoreFailure
  \/ \E h \in {"resetGeneration", "clearUserInputs", "clearAllData"} : ClearStart(h)
  \/ ClearFinish
  \/ GenerateStart
  \/ \E mapped \in ApiResults : GenerateSuccess(mapped)
  \/ GenerateStoreFailure

SpecUnavailable == InitUnavailable /\ [][NextUnavailable]_vars

\* ------------------------------------------------------------- properties
UniqueIds(items) == Cardinality(Ids(items)) = Len(items)

ReAdd(rec) == rec \in Ids(itinerary) /\ AddToItinerary(rec)

\* C1: no two in-memory itinerary items share an id, and addToItinerary of
\* a recommendation whose id is already in the itinerary changes neither the
\* in-memory itinerary nor the persisted one.
C1_UniqueItineraryIds ==
  /\ [](UniqueIds(itinerary))
  /\ [][(\E rec \in RecIds : ReAdd(rec)) =>
          (itinerary' = itinerary /\ db' = db)]_vars

\* an add of an id already present has just run on an itinerary of two items
C1_Witness ==
  /\ lastOp = "AddToItinerary:present"
  /\ Len(itinerary) >= 2

\* C2: when autoplan completes on an itinerary that was not empty and no
\* other operation ran while it was suspended, the in-memory itinerary is
\* exactly the items built from the selected recommendations and the
\* persisted itinerary holds exactly those items: no earlier entry survives.
C2_AutoplanReplacesItinerary ==
  [][(AutoplanFinish /\ apClean /\ apPrev # <<>>) =>
       /\ itinerary' = apItems
       /\ db'.itinerary = Range(apItems)]_vars

\* an uninterleaved autoplan over a non-empty itinerary has completed with
\* two selected recommendations
C2_Witness ==
  /\ lastOp = "AutoplanFinish:replaced"
  /\ Len(itinerary) >= 2

StaleResponse ==
  /\ PrefsOf(Cur) # genReq
  /\ \E mapped \in ApiResults : GenerateSuccess(mapped)

\* C3: a generation response that arrives after a preference field changed
\* is discarded: the in-memory recommendations stay empty, isGenerated stays
\* false, and neither the recommendations nor the session flag is written to
\* the Local Store.
C3_StaleResponseDiscarded ==
  [][StaleResponse =>
       /\ recommendations' = <<>>
       /\ isGenerated' = FALSE
       /\ db'.recommendations = db.recommendations
       /\ db'.session = db.session]_vars

\* a render in which a preference value differs from the previous render's
PreferenceChanged == mounted' /\ PrefsOf(Cur)' # PrefsOf(Cur)

\* the reset effect of the latest preference change has run
ResetEffectRan == ~resetPending'

ResetStep ==
  \/ \E f \in PrefFields, v \in PrefValues : SetPreference(f, v)
  \/ ResetMobile
  \/ ClearStart("resetGeneration")
  \/ ClearFinish /\ clearPc = "resetGeneration"

\* clearAllData completes and nothing else ran while it awaited the store
ClearAllDataDone == ClearFinish /\ clearPc = "clearAllData" /\ clrClean

C6_ReloadReproducesState ==
  (lastOp = "LoadFinish" /\ held # <<>>) => Held = held[1]

PersistedIds == {x.id : x \in db.itinerary}

\* C7: whatever addToItinerary, removeFromItinerary and updateItineraryDay
\* calls ran while autoplan was suspended at its awaits, once autoplan and
\* every other operation has completed the persisted itinerary ids are the
\* in-memory itinerary ids.
C7_NoStaleIdsAfterAutoplan ==
  apPc = "idle" => PersistedIds = Ids(itinerary)

PreferenceEdit == \E f \in PrefFields, v \in PrefValues : SetPreference(f, v)

\* C8: edits less than the quiet period apart produce at most one
\* saveUserPreferences write: at most one write is ever pending, every edit
\* replaces the pending write by one due a full quiet period later that
\* carries the edit's values, and the write that is issued stores the
\* values of the last edit.
C8_DebouncedPreferenceSave ==
  /\ [](Cardinality(timers) <= 1)
  /\ [][PreferenceEdit =>
          \E t \in timers' : /\ timers' = {t}
                              /\ t.left = QuietTicks
                              /\ t.prefs = PrefsOf(Cur)']_vars
  /\ [][\A t \in timers : TimerFire(t) =>
          db'.userPreferences = <<PrefsOf(Cur)>>]_vars

\* one write has been issued for two or more edits made within the quiet
\* period of each other, and the Local Store holds the last edit's values
C8_Witness ==
  /\ lastOp = "TimerFire:coalesced"
  /\ timers = {}
  /\ db.userPreferences = <<PrefsOf(Cur)>>

\* C9: migrateFromLocalStorage writes nothing to a record kind the Local
\* Store already holds data of: the preferences, the recommendations, the
\* itinerary and the session are each the same before and after the
\* migration if they were populated before it, whatever the legacy storage
\* holds.
C9_MigrationKeepsPopulatedKinds ==
  [][Migrate =>
       /\ (db.userPreferences # <<>> => db'.userPreferences = db.userPreferences)
       /\ (db.recommendations # <<>> => db'.recommendations = db.recommendations)
       /\ (db.itinerary # {} => db'.itinerary = db.itinerary)
       /\ (db.session # <<>> => db'.session = db.session)]_vars

\* the migration has run over a legacy session flag 'true' while the Local
\* Store held a session record saying false, and the record still says false
C9_Witness ==
  /\ lastOp = "Migrate"
  /\ localStorage.isGenerated = <<"true">>
  /\ db.session = <<[isGenerated |-> FALSE]>>

\* C10: legacy data of a kind is imported into the Local Store at most
\* once: a migration never imports a kind an earlier migration has imported,
\* also after the user has emptied that kind.
C10_ImportedAtMostOnce ==
  [][Migrate => ImportedKinds(db, localStorage) \cap imported = {}]_vars

LegacyPreferences(ls) ==
  [destination |-> GetItemOr(ls, "destination"), movie |-> GetItemOr(ls, "movie"),
   artist |-> GetItemOr(ls, "artist"), author |-> GetItemOr(ls, "author")]

WellFormed(json) == json # <<>> /\ json[1].ok

SomeKindMalformed ==
  localStorage.recommendations = MalformedJson \/
  localStorage.itinerary = MalformedJson

\* C11: when the legacy recommendations or the legacy itinerary are malformed
\* JSON, the migration leaves that kind alone, still imports every other kind
\* that is empty in the Local Store and well-formed in legacy storage, and
\* runs to its end.
C11_MalformedKindSkippedAlone ==
  [][(Migrate /\ SomeKindMalformed) =>
       /\ loadPc' = "finish"
       /\ (localStorage.recommendations = MalformedJson =>
             db'.recommendations = db.recommendations)
       /\ (localStorage.itinerary = MalformedJson =>
             db'.itinerary = db.itinerary)
       /\ ((db.userPreferences = <<>> /\
            LegacyPreferences(localStorage) # NoPrefs) =>
             db'.userPreferences = <<LegacyPreferences(localStorage)>>)
       /\ ((db.recommendations = <<>> /\
            WellFormed(localStorage.recommendations)) =>
             db'.recommendations = localStorage.recommendations[1].val)
       /\ ((db.itinerary = {} /\ WellFormed(localStorage.itinerary)) =>
             db'.itinerary = Range(localStorage.itinerary[1].val))
       /\ ((db.session = <<>> /\ localStorage.isGenerated # <<>>) =>
             db'.session = <<[isGenerated |->
                               localStorage.isGenerated[1] = "true"]>>)]_vars

\* a migration over malformed legacy recommendations has imported the legacy
\* itinerary and the legacy session and left the recommendations empty
C11_Witness ==
  /\ lastOp = "Migrate"
  /\ localStorage.recommendations = MalformedJson
  /\ db.recommendations = <<>>
  /\ {"itinerary", "session"} \subseteq imported
  /\ db.itinerary # {}

\* C12: while every kenshoDb operation rejects, each user operation still
\* has its whole in-memory effect: the three clears reset the state they
\* reset with a working store, autoplan shows the selected items, a
\* generation shows its recommendations, and an add puts its item in the
\* itinerary.
C12_DegradesToMemoryOnly ==
  [][~db.available =>
       /\ ((ClearFinish /\ clearPc = "resetGeneration") => ~isGenerated')
       /\ ((ClearFinish /\ clearPc = "clearUserInputs") =>
             (PrefsOf(Cur)' = NoPrefs /\ ~isGenerated'))
       /\ ((ClearFinish /\ clearPc = "clearAllData") =>
             (PrefsOf(Cur)' = NoPrefs /\ ~isGenerated' /\
              recommendations' = <<>> /\ itinerary' = <<>>))
       /\ (AutoplanStoreFailure => itinerary' = apItems)
       /\ (GenerateStoreFailure =>
             (isGenerated' /\ recommendations' = recommendations))
       /\ (\A rec \in RecIds : AddToItinerary(rec) => rec \in Ids(itinerary'))]_vars

\* the model call fails, its reply does not parse, or the ids it names match
\* none of the recommendations
AutoplanFails ==
  \/ \E e \in AutoplanErrors : AutoplanFailure(e)
  \/ \E ids \in SUBSET RecIds : /\ ids \cap Range(apRecs) = {}
                                 /\ AutoplanResponse(ids)

\* C13: an autoplan that fails or matches nothing ends with an error shown
\* and changes neither the in-memory nor the persisted itinerary; when
\* nothing else ran meanwhile, the itinerary is the one the call started
\* with.
C13_FailedAutoplanKeepsItinerary ==
  [][AutoplanFails =>
       /\ autoplanError' # <<>>
       /\ ~isAutoplanning'
       /\ itinerary' = itinerary
       /\ db'.itinerary = db.itinerary
       /\ (apClean => itinerary' = apPrev)]_vars

\* an autoplan over a non-empty itinerary has matched nothing: the error is
\* shown and the itinerary is still there, in memory and in the Local Store
C13_Witness ==
  /\ lastOp = "AutoplanResponse:nomatch"
  /\ autoplanError = NoMatchError
  /\ itinerary # <<>>
  /\ PersistedIds = Ids(itinerary)

Replies(call) ==
  {i \in 1..Len(chatMessages) :
     chatMessages[i].type = "assistant" /\ chatMessages[i].of = call}

Questions(call) ==
  {i \in 1..Len(chatMessages) :
     chatMessages[i].type = "user" /\ chatMessages[i].of = call}

\* every message sent has its one user entry; it has no reply while its call
\* is in flight and exactly one afterwards, later in the chat, holding the
\* model's text or the apology
OneReplyPerMessage ==
  \A call \in 1..sends :
    /\ Cardinality(Questions(call)) = 1
    /\ Cardinality(Replies(call)) = (IF call \in chatCalls THEN 0 ELSE 1)
    /\ \A i \in Replies(call) :
         /\ \A j \in Questions(call) : j < i
         /\ chatMessages[i].content \in {ReplyText, Fallback}

BlankSend == currentMessage \in {"", " "} /\ HandleSendMessage

\* C14: every non-blank message sent gets exactly one assistant message
\* appended after it, the model's text or the fixed apology, and gets it
\* eventually; a blank message appends nothing and starts no call.
C14_OneReplyPerMessage ==
  /\ []OneReplyPerMessage
  /\ [][BlankSend => UNCHANGED <<chatMessages, chatCalls>>]_vars
  /\ \A call \in 1..MaxSends :
       (call \in chatCalls) ~> (Replies(call) # {})

\* two messages were sent before the first reply came; both calls have
\* settled, one with the apology, and each message has its reply
C14_Witness ==
  /\ sends = 2 /\ chatCalls = {}
  /\ Len(chatMessages) = 5
  /\ chatMessages[3].type = "user"
  /\ \E i \in 4..5 : chatMessages[i].content = Fallback

AllLocations == dbLocations \o locations

\* C15: on a loaded map the displayed marker ids are the ids of the current
\* locations, dbLocations together with the locations prop, and a marker
\* whose id was displayed before a step and is still listed after it is the
\* same instance.
C15_MarkersFollowLocations ==
  /\ [](mapLoaded => DOMAIN markersRef = Ids(AllLocations))
  /\ [][\A id \in DOMAIN markersRef \cap Ids(AllLocations') :
          markersRef'[id] = markersRef[id]]_vars

\* one location left the list, one stayed and one came: two markers are
\* displayed, the one that stayed being the instance built first
C15_Witness ==
  /\ mapLoaded
  /\ lastOp = "SetLocations"
  /\ markerCount = 3
  /\ \E id \in DOMAIN markersRef : markersRef[id] = 3
  /\ \E id \in DOMAIN markersRef : markersRef[id] \in 1..2
  /\ Cardinality(DOMAIN markersRef) = 2
  /\ dbLocations # <<>>

\* C16: the marker effect calls fitBounds only in a run that starts with no
\* marker displayed and a location list that is not empty; a run that starts
\* with a marker displayed never calls it.
C16_FitBoundsOnFirstMarkersOnly ==
  [][/\ fitted' => (mapLoaded' /\ DOMAIN markersRef = {} /\ AllLocations' # <<>>)
     /\ DOMAIN markersRef # {} => ~fitted']_vars

\* fitBounds was called when the first markers came, and the next change of
\* the list, which built another marker, did not call it
C16_Witness ==
  /\ mapLoaded /\ ~fitted
  /\ lastOp = "SetLocations"
  /\ markerCount >= 2
  /\ \E id \in DOMAIN markersRef : markersRef[id] = 1
  /\ \E id \in DOMAIN markersRef : markersRef[id] = markerCount

\* C17: convertToMapLocation returns [longitude, latitude] whenever both are
\* stored, zero included, and the default point exactly when one is absent;
\* id, name, category, image and insight are copied.
C17_StoredCoordinatesUsed ==
  (lastOp = "convertToMapLocation") =>
    LET item == arg.item
        location == result[1]
        stored == item.latitude # <<>> /\ item.longitude # <<>>
    IN  /\ stored => location.coordinates = <<item.longitude[1], item.latitude[1]>>
        /\ ~stored <=> location.coordinates = DefaultCoordinates
        /\ location.id = item.id /\ location.name = item.name
        /\ location.category = item.category /\ location.image = item.image
        /\ location.insight = item.insight

\* the segments whose keywords a tag name holds, read off the name
SegmentsOf(name) ==
  CASE name = JazzBar -> {"dine", "listen"}
    [] name = MusicMuseum -> {"listen", "see"}
    [] name = ArtCafe -> {"dine", "see"}
    [] name = Food -> {"dine"}
    [] name = Theatre -> {"see"}
    [] name = Concert -> {"listen"}
    [] name = Park -> {}

Matched(tags) == UNION {SegmentsOf(t.name) : t \in Range(tags)}

\* C20: mapTagsToSegment returns one of dine, listen, see and explore: dine
\* when any tag matches a dine keyword, else listen, else see, whatever the
\* order of the tags, and explore when no tag matches or the list is empty.
C20_SegmentByPriority ==
  (lastOp = "mapTagsToSegment") =>
    /\ result[1] \in Segments
    /\ result[1] = (IF "dine" \in Matched(arg) THEN "dine"
                    ELSE IF "listen" \in Matched(arg) THEN "listen"
                    ELSE IF "see" \in Matched(arg) THEN "see"
                    ELSE "explore")

\* a see-and-listen tag ahead of a dine-and-listen tag gives dine
C20_Witness ==
  /\ lastOp = "mapTagsToSegment"
  /\ arg = <<[name |-> MusicMuseum], [name |-> JazzBar]>>
  /\ result = <<"dine">>

PopularityOf(id) == arg[id].popularity

\* C18: the recommendations mapped from N entities are N, one per entity,
\* in order of non-increasing popularity.
C18_SortedByPopularity ==
  (lastOp = "mappedRecommendations") =>
    LET recs == result[1]
    IN  /\ Len(recs) = Len(arg)
        /\ {recs[k].id : k \in 1..Len(recs)} = 1..Len(arg)
        /\ \A j, k \in 1..Len(recs) :
             j < k => PopularityOf(recs[j].id) >= PopularityOf(recs[k].id)

\* three entities given in rising popularity come out in falling popularity
C18_Witness ==
  /\ lastOp = "mappedRecommendations"
  /\ Len(arg) = 3
  /\ arg[1].popularity < arg[2].popularity
  /\ arg[2].popularity < arg[3].popularity
  /\ [k \in 1..3 |-> result[1][k].id] = <<3, 2, 1>>

LessEq(p, q) == p.num * q.den <= q.num * p.den

Whole(n) == [num |-> n, den |-> 1]

Same(p, q) == LessEq(p, q) /\ LessEq(q, p)

\* C19: with N recommendations the one at index i has rank i / (N - 1), 0
\* when N = 1, and radius 25 + (1 - rank) * 70: within [25, 95], not
\* increasing with i, and 95, 60, 25 when N = 3.
C19_RadiusFromRank ==
  (lastOp = "mappedRecommendations") =>
    LET recs == result[1]
        N == Len(recs)
    IN  /\ \A k \in 1..N :
             /\ Same(popularityRank(k - 1, N),
                     IF N = 1 THEN Whole(0) ELSE [num |-> k - 1, den |-> N - 1])
             /\ IF N = 1 THEN Same(recs[k].radius, Whole(95))
                ELSE recs[k].radius.num * (N - 1) =
                       recs[k].radius.den * (25 * (N - 1) + 70 * (N - k))
             /\ LessEq(Whole(25), recs[k].radius)
             /\ LessEq(recs[k].radius, Whole(95))
        /\ \A j, k \in 1..N : j < k => LessEq(recs[k].radius, recs[j].radius)
        /\ N = 3 => /\ Same(recs[1].radius, Whole(95))
                    /\ Same(recs[2].radius, Whole(60))
                    /\ Same(recs[3].radius, Whole(25))

\* three recommendations with radii 95, 60 and 25
C19_Witness ==
  /\ lastOp = "mappedRecommendations"
  /\ Len(result[1]) = 3
  /\ result[1][1].radius = [num |-> 190, den |-> 2]
  /\ result[1][2].radius = [num |-> 120, den |-> 2]
  /\ result[1][3].radius = [num |-> 50, den |-> 2]

OnDay(items, d) == {i \in 1..Len(items) : items[i].day = d}

\* C21: a successful autoplan of k >= 1 recommendations sets the itinerary to
\* k items in recommendation-list order, the i-th (0-based) with day
\* floor(i / 2) + 1, order i and a note holding the description; so each of
\* the days 1..ceil(k / 2) holds one or two items and every day is >= 1.
C21_AutoplanTwoPerDay ==
  [][AutoplanSetItinerary =>
       LET k == Len(itinerary')
       IN  /\ k >= 1
           /\ [i \in 1..k |-> itinerary'[i].id] =
                SelectSeq(apRecs, LAMBDA rec : rec \in Ids(itinerary'))
           /\ \A i \in 0..(k - 1) :
                /\ itinerary'[i + 1].day = (i \div 2) + 1
                /\ itinerary'[i + 1].order = i
                /\ apDesc \in Range(itinerary'[i + 1].notes)
                /\ itinerary'[i + 1].day >= 1
                /\ itinerary'[i + 1].day <= (k + 1) \div 2
           /\ \A d \in 1..((k + 1) \div 2) :
                Cardinality(OnDay(itinerary', d)) \in {1, 2}]_vars

\* three recommendations were selected: two items on day 1, one on day 2
C21_Witness ==
  /\ lastOp = "AutoplanSetItinerary"
  /\ Len(itinerary) = 3
  /\ Cardinality(OnDay(itinerary, 1)) = 2
  /\ Cardinality(OnDay(itinerary, 2)) = 1

\* C22: once clearUserInputs or clearAllData has completed and no timer is
\* pending, the Local Store holds no UserPreferences record until the user
\* next edits a preference field.
C22_ClearedPreferencesStayDeleted ==
  (prefsCleared /\ clearPc = "idle" /\ timers = {}) => db.userPreferences = <<>>

GenerateClick == GenerateStart

AutoplanClick == AutoplanStart /\ hasRequiredInputs

ChatSend == HandleSendMessage /\ currentMessage = "q"

LocationSearch == HandleLocationSearch("Tokyo")

\* C23: with a credential absent, every operation that needs it shows a
\* configuration error and issues no request.
C23_MissingCredentialReported ==
  [][/\ ("VITE_QLOO_API_KEY" \notin env /\ GenerateClick) =>
          (genPc' = "idle" /\ error' = QlooKeyError)
     /\ ("VITE_GEMINI_API_KEY" \notin env /\ AutoplanClick) =>
          (apPc' = "idle" /\ autoplanError' = GeminiKeyError)
     /\ ("VITE_GEMINI_API_KEY" \notin env /\ ChatSend) =>
          (chatCalls' = chatCalls /\ chatMessages' # chatMessages)
     /\ ("VITE_MAPBOX_API_KEY" \notin env /\ LocationSearch) =>
          ~isSearching']_vars

\* C24: a reply with status 400, with or without a message in its body,
\* ends the generation with 'Destination is invalid', isLoading false,
\* isGenerated false and no recommendations; any other failure ends it with
\* the generic message.
C24_InvalidDestinationReported ==
  [][\A e \in ApiErrors :
       GenerateFailure(e) =>
         /\ apiError' = (IF e.status = 400 THEN "Destination is invalid"
                         ELSE "An error occurred while generating recommendations")
         /\ ~isLoading' /\ ~isGenerated' /\ recommendations' = <<>>]_vars

\* C25: each preference edit cancels the pending write and schedules one for
\* the new values, a write that comes due stores its values, and a write
\* pending when the view is unmounted is flushed to the Local Store.
C25_PendingWriteFlushed ==
  [][/\ (\E f \in PrefFields, v \in PrefValues : SetPreference(f, v)) =>
          (\E t \in timers' : /\ timers' = {t}
                               /\ t.prefs = PrefsOf(Cur)'
                               /\ t.left = QuietTicks)
     /\ (\A t \in timers : TimerFire(t) => db'.userPreferences = <<t.prefs>>)
     /\ (\A t \in timers :
           (t.edits >= 1 /\ Unmount) => db'.userPreferences = <<t.prefs>>)]_vars

\* C26: on the mobile layout the first tap on a dot selects it and adds
\* nothing, a second tap on it adds it once and unselects it, one dot at
\* most is selected, and a tap elsewhere unselects the selected dot.
C26_TwoTapSelection ==
  [][/\ \A rec \in RecIds :
          HandleDotClick(rec) =>
            IF selectedRec = <<rec>>
            THEN /\ selectedRec' = <<>>
                 /\ Cardinality({i \in 1..Len(itinerary') :
                                   itinerary'[i].id = rec}) = 1
                 /\ Ids(itinerary') = Ids(itinerary) \cup {rec}
            ELSE /\ selectedRec' = <<rec>>
                 /\ itinerary' = itinerary
     /\ Len(selectedRec') <= 1
     /\ TapElsewhere => selectedRec' = <<>>]_vars

\* C27: after any sequence of addToItinerary, removeFromItinerary and
\* updateItineraryDay no two items of the same day have the same order.
C27_OrderUniqueWithinDay ==
  \A i, j \in 1..Len(itinerary) :
    (i # j /\ itinerary[i].day = itinerary[j].day) =>
      itinerary[i].order # itinerary[j].order

\* an autoplan run is suspended and the reset effect of a preference change
\* has since emptied the recommendations the run captured
PreferenceChangedInFlight ==
  /\ apPc # "idle"
  /\ apRecs # <<>>
  /\ recommendations = <<>>

\* C28: when a preference field changes while an autoplan model call is in
\* flight, the run's result is not applied: no step taken after the change
\* puts a recommendation of the previous generation into the in-memory
\* itinerary or into the persisted one.
C28_StaleAutoplanNotApplied ==
  [][PreferenceChangedInFlight =>
       /\ Ids(itinerary') \subseteq Ids(itinerary)
       /\ PersistedIds' \subseteq PersistedIds]_vars

\* C29: the typing indicator is shown exactly while a chat request awaits
\* its reply: isTyping is true in every state where at least one
\* generateContent call is pending and false when none is, also when a
\* second message was sent before the first reply.
C29_TypingWhileAwaiting == isTyping <=> (chatCalls # {})

\* the labels of the steps in which a handleAutoplan call returns
AutoplanReturns ==
  {"AutoplanStart:precondition", "AutoplanStart:nokey", "AutoplanFailure",
   "AutoplanResponse:nomatch", "AutoplanStoreFailure", "AutoplanFinish",
   "AutoplanFinish:replaced"}

\* C30: at most one autoplan run is in flight, and isAutoplanning is
\* eventually false on every path through handleAutoplan: the flag that
\* disables the Autoplan buttons is true exactly while a run is suspended at
\* an await, a run begins only when none is in flight, every step in which
\* handleAutoplan returns leaves the flag false, and a flag that is true
\* becomes false.
C30_AutoplanRunsOneAtATime ==
  /\ [](isAutoplanning <=> (apPc # "idle"))
  /\ [][(lastOp' = "AutoplanStart" /\ ops' # ops) =>
          (~isAutoplanning /\ apPc = "idle")]_vars
  /\ [][(lastOp' \in AutoplanReturns /\ apPc' = "idle") =>
          ~isAutoplanning']_vars
  /\ (isAutoplanning ~> ~isAutoplanning)

\* a run has selected recommendations, written them, and returned with the
\* flag false
C30_Witness ==
  /\ lastOp \in {"AutoplanFinish", "AutoplanFinish:replaced"}
  /\ itinerary # <<>>
  /\ ~isAutoplanning

====
